---- MODULE Spec2Model ----
(***************************************************************************)
(* Model of the linking and coverage-analysis engine of open-very-fast-    *)
(* trace: Linker::link_items (ovft-core/src/core/linker.rs) followed by    *)
(* Tracer::analyze_trace (ovft-core/src/core/tracer.rs), over the item     *)
(* data model of ovft-core/src/core/model.rs.                              *)
(*                                                                         *)
(* One behaviour is one run of Tracer::trace after the import: the merged  *)
(* item list is the input, each pass of link_items is one step, and the    *)
(* analyzer is the last step.  A std HashMap iterates in an order that     *)
(* differs from map to map, so every iteration over one is a               *)
(* nondeterministically chosen ordering of its keys.                       *)
(***************************************************************************)
EXTENDS Integers, Sequences, FiniteSets, TLC

\* ------------------------------------------------------------------------
\* Bounds of the explored inputs
\* ------------------------------------------------------------------------
MaxItems == 3
MaxRev == 3
MaxNeeds == 2
MaxSize == 4
MaxIdLen == 2
MaxSegments == 4
MaxLines == 2
MaxTags == 2
MaxEntries == 2
MaxDirs == 1
MaxMdLines == 4

\* ------------------------------------------------------------------------
\* Strings and u32
\* ------------------------------------------------------------------------
\* A string is the sequence of its pieces: the words and separators it is
\* built from, or its single characters where it is parsed.
\*
\* A u32 is hi * 2^16 + lo with both halves in 0 .. 2^16 - 1.
u32(n) == [hi |-> n \div 65536, lo |-> n % 65536]

u32_MAX == [hi |-> 65535, lo |-> 65535]

\* a > b on u32
u32_gt(a, b) == a.hi > b.hi \/ (a.hi = b.hi /\ a.lo > b.lo)

ArtifactTypes == {<<"req">>, <<"impl">>}
Names == {<<"x">>}
Revisions == {u32(r) : r \in 1..MaxRev}

\* ------------------------------------------------------------------------
\* Data model (model.rs)
\* ------------------------------------------------------------------------
\* The identifiers of the explored inputs: every revision of the req items,
\* the first revision of the others.
SpecificationItemId ==
    {id \in [artifact_type : ArtifactTypes, name : Names, revision : Revisions] :
        id.artifact_type = <<"req">> \/ id.revision = u32(1)}

NewId(t, n, r) == [artifact_type |-> t, name |-> n, revision |-> r]

SeqsUpTo(S, n) == UNION {[1..k -> S] : k \in 0..n}

\* The quotient and the remainder of a u32 divided by 10
u32_divmod10(v) ==
    LET t == (v.hi % 10) * 65536 + v.lo
    IN  [quot |-> [hi |-> v.hi \div 10, lo |-> t \div 10], rem |-> t % 10]

Digits == <<"0", "1", "2", "3", "4", "5", "6", "7", "8", "9">>

\* impl Display for u32: the decimal digits, most significant first
RECURSIVE u32_to_string(_)
u32_to_string(v) ==
    LET d == u32_divmod10(v) IN
    IF d.quot = u32(0) THEN <<Digits[d.rem + 1]>>
    ELSE u32_to_string(d.quot) \o <<Digits[d.rem + 1]>>

\* impl Display for SpecificationItemId: "{}~{}~{}"
Display(id) ==
    id.artifact_type \o <<"~">> \o id.name \o <<"~">> \o u32_to_string(id.revision)

\* str::split: the segments between the occurrences of sep
RECURSIVE split(_, _)
split(s, sep) ==
    IF \A k \in 1..Len(s) : s[k] # sep THEN <<s>>
    ELSE LET k == CHOOSE i \in 1..Len(s) : s[i] = sep /\ \A j \in 1..(i - 1) : s[j] # sep
         IN  <<SubSeq(s, 1, k - 1)>> \o split(SubSeq(s, k + 1, Len(s)), sep)

\* char::to_digit(10): the value of a decimal digit, -1 for None
to_digit(c) ==
    IF \E d \in 1..10 : Digits[d] = c THEN (CHOOSE d \in 1..10 : Digits[d] = c) - 1 ELSE -1

\* u32::checked_mul(10)
checked_mul_10(v) ==
    LET lo == v.lo * 10
        hi == v.hi * 10 + lo \div 65536
    IN  IF hi > 65535 THEN [ok |-> FALSE] ELSE [ok |-> TRUE, value |-> [hi |-> hi, lo |-> lo % 65536]]

\* u32::checked_add of a digit
checked_add(v, x) ==
    LET lo == v.lo + x
        hi == v.hi + lo \div 65536
    IN  IF hi > 65535 THEN [ok |-> FALSE] ELSE [ok |-> TRUE, value |-> [hi |-> hi, lo |-> lo % 65536]]

\* str::parse::<u32>, the loop over the digits
RECURSIVE parse_digits(_, _, _)
parse_digits(digits, k, result) ==
    IF k > Len(digits) THEN [ok |-> TRUE, value |-> result]
    ELSE LET mul == checked_mul_10(result)
             x == to_digit(digits[k])
         IN  IF x < 0 THEN [ok |-> FALSE, kind |-> "InvalidDigit"]
             ELSE IF ~mul.ok THEN [ok |-> FALSE, kind |-> "PosOverflow"]
             ELSE LET sum == checked_add(mul.value, x) IN
                  IF ~sum.ok THEN [ok |-> FALSE, kind |-> "PosOverflow"]
                  ELSE parse_digits(digits, k + 1, sum.value)

\* str::parse::<u32>: an optional "+", then decimal digits, within u32
parse_u32(src) ==
    IF Len(src) = 0 THEN [ok |-> FALSE, kind |-> "Empty"]
    ELSE IF Len(src) = 1 /\ src[1] \in {"+", "-"} THEN [ok |-> FALSE, kind |-> "InvalidDigit"]
    ELSE parse_digits(IF src[1] = "+" THEN Tail(src) ELSE src, 1, u32(0))

\* Variant of parse: segments after the third are ignored.
parse_ignoring_extra_segments(id_str) ==
    LET parts == split(id_str, "~") IN
    IF Len(parts) < 3 THEN [ok |-> FALSE, error |-> "InvalidId"]
    ELSE LET revision == parse_u32(parts[3]) IN
         IF ~revision.ok THEN [ok |-> FALSE, error |-> "InvalidId"]
         ELSE [ok |-> TRUE, value |-> NewId(parts[1], parts[2], revision.value)]

\* SpecificationItemId::parse
parse(id_str) ==
    LET parts == split(id_str, "~") IN
    IF Len(parts) # 3 THEN [ok |-> FALSE, error |-> "InvalidId"]
    ELSE LET revision == parse_u32(parts[3]) IN
         IF ~revision.ok THEN [ok |-> FALSE, error |-> "InvalidId"]
         ELSE [ok |-> TRUE, value |-> NewId(parts[1], parts[2], revision.value)]

Contains(s, e) == \E k \in 1..Len(s) : s[k] = e

Link(source, target, status) == [source_id |-> source, target_id |-> target, status |-> status]

LinkedSpecificationItem_new(item) ==
    [item |-> item, outgoing_links |-> <<>>, incoming_links |-> <<>>,
     coverage_status |-> "Uncovered", is_defect |-> FALSE]

add_outgoing_link(li, target_id, status) ==
    [li EXCEPT !.outgoing_links = Append(@, Link(li.item.id, target_id, status))]

add_incoming_link(li, source_id, status) ==
    [li EXCEPT !.incoming_links = Append(@, Link(source_id, li.item.id, status))]

is_covered(li) == li.coverage_status = "Covered"

\* ------------------------------------------------------------------------
\* Linker (linker.rs)
\* ------------------------------------------------------------------------
EmptyMap == [k \in {} |-> k]

MapInsert(m, key, value) == [k \in DOMAIN m \cup {key} |-> IF k = key THEN value ELSE m[k]]

\* link_items, first loop: the lookup map keeps the first item of every
\* identifier, every later occurrence pushes the identifier to duplicate_ids.
RECURSIVE build_lookup(_, _, _, _)
build_lookup(its, i, byId, dups) ==
    IF i > Len(its) THEN [items_by_id |-> byId, duplicate_ids |-> dups]
    ELSE IF its[i].id \in DOMAIN byId
         THEN build_lookup(its, i + 1, byId, Append(dups, its[i].id))
         ELSE build_lookup(its, i + 1, MapInsert(byId, its[i].id, its[i]), dups)

\* Variant of create_linked_item: a duplicate is flagged but gets no link.
create_linked_item_flag_only(item, dups) ==
    LET linked_item == LinkedSpecificationItem_new(item) IN
    IF Contains(dups, item.id)
    THEN [linked_item EXCEPT !.is_defect = TRUE]
    ELSE linked_item

\* link_items, second loop body: wrap the item, mark duplicates.
create_linked_item(item, dups) ==
    LET linked_item == LinkedSpecificationItem_new(item) IN
    IF Contains(dups, item.id)
    THEN add_outgoing_link([linked_item EXCEPT !.is_defect = TRUE], item.id, "Duplicate")
    ELSE linked_item

\* The orders in which a HashMap with key set S can iterate.
IterationOrders(S) ==
    {o \in [1..Cardinality(S) -> S] : \A a \in S : \E k \in 1..Cardinality(S) : o[k] = a}

\* Variant of determine_link_status: the needs of the item found are not
\* looked at, every exact match is Covers.
determine_link_status_ignoring_needs(covered_id, byId, keys) ==
    IF covered_id \in DOMAIN byId
    THEN "Covers"
    ELSE LET matching_items ==
                 SelectSeq(keys, LAMBDA id : id.artifact_type = covered_id.artifact_type
                                             /\ id.name = covered_id.name)
         IN  IF Len(matching_items) = 0 THEN "Orphaned"
             ELSE IF Len(matching_items) > 1 THEN "Ambiguous"
             ELSE IF u32_gt(matching_items[1].revision, covered_id.revision) THEN "Outdated"
             ELSE "Predated"

\* Variant of determine_link_status: the revision comparison is reversed.
determine_link_status_reversed(covered_id, byId, keys) ==
    IF covered_id \in DOMAIN byId
    THEN IF Len(byId[covered_id].needs) = 0 THEN "Unwanted" ELSE "Covers"
    ELSE LET matching_items ==
                 SelectSeq(keys, LAMBDA id : id.artifact_type = covered_id.artifact_type
                                             /\ id.name = covered_id.name)
         IN  IF Len(matching_items) = 0 THEN "Orphaned"
             ELSE IF Len(matching_items) > 1 THEN "Ambiguous"
             ELSE IF u32_gt(covered_id.revision, matching_items[1].revision) THEN "Outdated"
             ELSE "Predated"

\* Variant of determine_link_status: no Ambiguous case, the first matching
\* key the map yields is compared.
determine_link_status_first_match(covered_id, byId, keys) ==
    IF covered_id \in DOMAIN byId
    THEN IF Len(byId[covered_id].needs) = 0 THEN "Unwanted" ELSE "Covers"
    ELSE LET matching_items ==
                 SelectSeq(keys, LAMBDA id : id.artifact_type = covered_id.artifact_type
                                             /\ id.name = covered_id.name)
         IN  IF Len(matching_items) = 0 THEN "Orphaned"
             ELSE IF u32_gt(matching_items[1].revision, covered_id.revision) THEN "Outdated"
             ELSE "Predated"

determine_link_status(covered_id, byId, keys) ==
    IF covered_id \in DOMAIN byId
    THEN IF Len(byId[covered_id].needs) = 0 THEN "Unwanted" ELSE "Covers"
    ELSE LET matching_items ==
                 SelectSeq(keys, LAMBDA id : id.artifact_type = covered_id.artifact_type
                                             /\ id.name = covered_id.name)
         IN  IF Len(matching_items) = 0 THEN "Orphaned"
             ELSE IF Len(matching_items) > 1 THEN "Ambiguous"
             ELSE IF u32_gt(matching_items[1].revision, covered_id.revision) THEN "Outdated"
             ELSE "Predated"

determine_incoming_link_status(item_id, covering_id) == "CoveredShallow"

\* Variant of add_outgoing_links: a covers entry whose target already has a
\* link is skipped.
RECURSIVE add_outgoing_links_once_per_target(_, _, _, _)
add_outgoing_links_once_per_target(li, k, byId, keys) ==
    IF k > Len(li.item.covers) THEN li
    ELSE add_outgoing_links_once_per_target(
             IF \E l \in 1..Len(li.outgoing_links) :
                    li.outgoing_links[l].target_id = li.item.covers[k]
             THEN li
             ELSE add_outgoing_link(li, li.item.covers[k],
                                    determine_link_status(li.item.covers[k], byId, keys)),
             k + 1, byId, keys)

\* process_coverage_links, first loop: one outgoing link per covers entry.
RECURSIVE add_outgoing_links(_, _, _, _)
add_outgoing_links(li, k, byId, keys) ==
    IF k > Len(li.item.covers) THEN li
    ELSE add_outgoing_links(
             add_outgoing_link(li, li.item.covers[k],
                               determine_link_status(li.item.covers[k], byId, keys)),
             k + 1, byId, keys)

\* Variant of add_incoming_links: an item covering itself is skipped.
RECURSIVE add_incoming_links_skip_self(_, _, _)
add_incoming_links_skip_self(li, others, k) ==
    IF k > Len(others) THEN li
    ELSE add_incoming_links_skip_self(
             IF Contains(others[k].covers, li.item.id) /\ others[k].id # li.item.id
             THEN add_incoming_link(li, others[k].id,
                                    determine_incoming_link_status(li.item.id, others[k].id))
             ELSE li,
             others, k + 1)

\* process_coverage_links, second loop: scan all items for ones covering li.
RECURSIVE add_incoming_links(_, _, _)
add_incoming_links(li, others, k) ==
    IF k > Len(others) THEN li
    ELSE add_incoming_links(
             IF Contains(others[k].covers, li.item.id)
             THEN add_incoming_link(li, others[k].id,
                                    determine_incoming_link_status(li.item.id, others[k].id))
             ELSE li,
             others, k + 1)

\* Variant of create_linked_items: later occurrences of an identifier are dropped.
create_linked_items_unique(its, dups) ==
    LET kept == SelectSeq([k \in 1..Len(its) |-> <<k, its[k]>>],
                          LAMBDA e : \A u \in 1..(e[1] - 1) : its[u].id # e[2].id)
    IN  [k \in 1..Len(kept) |-> create_linked_item(kept[k][2], dups)]

\* link_items, second loop
create_linked_items(its, dups) == [k \in 1..Len(its) |-> create_linked_item(its[k], dups)]

process_outgoing_links(lis, byId, keys) ==
    [k \in 1..Len(lis) |-> add_outgoing_links(lis[k], 1, byId, keys)]

process_incoming_links(lis) ==
    LET items_clone == [k \in 1..Len(lis) |-> lis[k].item] IN
    [k \in 1..Len(lis) |-> add_incoming_links(lis[k], items_clone, 1)]

\* Variant of is_artifact_type_covered_static: the covering item's type is
\* not compared with the needed type.
is_artifact_type_covered_any_type(item_id, artifact_type, items_data) ==
    \E k \in 1..Len(items_data) :
        /\ Contains(items_data[k][1].covers, item_id)
        /\ \E l \in 1..Len(items_data[k][2]) :
               /\ items_data[k][2][l].target_id = item_id
               /\ items_data[k][2][l].status = "Covers"

\* items_data[k] = <<item, outgoing_links>>
is_artifact_type_covered_static(item_id, artifact_type, items_data) ==
    \E k \in 1..Len(items_data) :
        /\ items_data[k][1].id.artifact_type = artifact_type
        /\ Contains(items_data[k][1].covers, item_id)
        /\ \E l \in 1..Len(items_data[k][2]) :
               /\ items_data[k][2][l].target_id = item_id
               /\ items_data[k][2][l].status = "Covers"

\* analyze_coverage, the loop over the needed types: <<all_covered, any_covered>>
RECURSIVE needs_flags(_, _, _, _, _)
needs_flags(li, k, items_data, all_covered, any_covered) ==
    IF k > Len(li.item.needs) THEN <<all_covered, any_covered>>
    ELSE IF is_artifact_type_covered_static(li.item.id, li.item.needs[k], items_data)
         THEN needs_flags(li, k + 1, items_data, all_covered, TRUE)
         ELSE needs_flags(li, k + 1, items_data, FALSE, any_covered)

\* Variant of coverage_status_of: no branch for the terminating item, and
\* Covered needs some needed type covered.
coverage_status_of_needs_some(li, items_data) ==
    LET flags == needs_flags(li, 1, items_data, TRUE, FALSE) IN
    IF flags[1] /\ flags[2] THEN "Covered"
    ELSE IF flags[2] THEN "Partial"
    ELSE "Uncovered"

coverage_status_of(li, items_data) ==
    IF Len(li.item.needs) = 0 THEN "Covered"
    ELSE LET flags == needs_flags(li, 1, items_data, TRUE, FALSE) IN
         IF flags[1] THEN "Covered"
         ELSE IF flags[2] THEN "Partial"
         ELSE "Uncovered"

BrokenLinkStatuses == {"Orphaned", "Ambiguous", "Outdated", "Predated", "Duplicate"}

\* Variant of has_broken_links: Duplicate is not among the broken statuses.
has_broken_links_without_duplicate(li) ==
    \E l \in 1..Len(li.outgoing_links) :
        li.outgoing_links[l].status \in BrokenLinkStatuses \ {"Duplicate"}

has_broken_links(li) ==
    \E l \in 1..Len(li.outgoing_links) : li.outgoing_links[l].status \in BrokenLinkStatuses

\* Variant of analyze_item: every resolved outgoing link counts as broken.
analyze_item_any_link_broken(li, items_data) ==
    LET status == coverage_status_of(li, items_data)
        covered == [li EXCEPT !.coverage_status = status]
        not_covered == ~is_covered(covered)
    IN  [covered EXCEPT !.is_defect = not_covered \/ Len(covered.outgoing_links) > 0]

\* analyze_coverage, loop body
analyze_item(li, items_data) ==
    LET status == coverage_status_of(li, items_data)
        covered == [li EXCEPT !.coverage_status = status]
        not_covered == ~is_covered(covered)
    IN  [covered EXCEPT !.is_defect = not_covered \/ has_broken_links(covered)]

analyze_coverage(lis) ==
    LET items_data == [k \in 1..Len(lis) |-> <<lis[k].item, lis[k].outgoing_links>>]
    IN  [k \in 1..Len(lis) |-> analyze_item(lis[k], items_data)]

\* Linker::link_items; keys is the order in which items_by_id iterates
link_items(its, keys) ==
    LET lookup(byId_dups) ==
            analyze_coverage(
                process_incoming_links(
                    process_outgoing_links(
                        create_linked_items(its, byId_dups.duplicate_ids),
                        byId_dups.items_by_id, keys)))
    IN  lookup(build_lookup(its, 1, EmptyMap, <<>>))

\* ------------------------------------------------------------------------
\* Coverage / defect analyzer (tracer.rs)
\* ------------------------------------------------------------------------
RECURSIVE join(_, _)
join(parts, sep) ==
    IF Len(parts) = 0 THEN <<>>
    ELSE IF Len(parts) = 1 THEN parts[1]
    ELSE parts[1] \o <<sep>> \o join(Tail(parts), sep)

\* Variant of link_issues: a Duplicate link contributes no issue.
link_issues_without_duplicate(li, link) ==
    CASE link.status = "Orphaned"  -> << <<"covers non-existing item ">> \o Display(link.target_id) >>
      [] link.status = "Outdated"  -> << <<"covers outdated revision of ">> \o Display(link.target_id) >>
      [] link.status = "Predated"  -> << <<"covers newer revision of ">> \o Display(link.target_id) >>
      [] link.status = "Ambiguous" -> << <<"has ambiguous reference to ">> \o Display(link.target_id) >>
      [] OTHER -> <<>>

\* generate_detailed_defect_description, the match on one outgoing link:
\* the issues (none or one) the link contributes.
link_issues(li, link) ==
    CASE link.status = "Orphaned"  -> << <<"covers non-existing item ">> \o Display(link.target_id) >>
      [] link.status = "Duplicate" -> << <<"has duplicate ID ">> \o Display(li.item.id) >>
      [] link.status = "Outdated"  -> << <<"covers outdated revision of ">> \o Display(link.target_id) >>
      [] link.status = "Predated"  -> << <<"covers newer revision of ">> \o Display(link.target_id) >>
      [] link.status = "Ambiguous" -> << <<"has ambiguous reference to ">> \o Display(link.target_id) >>
      [] OTHER -> <<>>

RECURSIVE broken_link_issues(_, _)
broken_link_issues(li, k) ==
    IF k > Len(li.outgoing_links) THEN <<>>
    ELSE link_issues(li, li.outgoing_links[k]) \o broken_link_issues(li, k + 1)

has_coverage(li, needed_type) ==
    \E l \in 1..Len(li.incoming_links) :
        li.incoming_links[l].source_id.artifact_type = needed_type

RECURSIVE missing_from(_, _)
missing_from(li, k) ==
    IF k > Len(li.item.needs) THEN <<>>
    ELSE (IF has_coverage(li, li.item.needs[k]) THEN <<>> ELSE <<li.item.needs[k]>>)
         \o missing_from(li, k + 1)

find_missing_coverage_types(li) == missing_from(li, 1)

\* Variant of missing_coverage_issues: only the first missing type is named.
missing_coverage_issues_first_only(li) ==
    IF ~(li.coverage_status = "Covered")
    THEN LET missing_coverage == find_missing_coverage_types(li) IN
         IF Len(missing_coverage) # 0
         THEN << <<"needs coverage by ">> \o missing_coverage[1] >>
         ELSE <<>>
    ELSE <<>>

missing_coverage_issues(li) ==
    IF ~(li.coverage_status = "Covered")
    THEN LET missing_coverage == find_missing_coverage_types(li) IN
         IF Len(missing_coverage) # 0
         THEN << <<"needs coverage by ">>
                 \o join(missing_coverage, ", ") >>
         ELSE <<>>
    ELSE <<>>

generate_detailed_defect_description(li) ==
    LET issues == broken_link_issues(li, 1) \o missing_coverage_issues(li) IN
    IF Len(issues) = 0
    THEN <<"Item ">> \o Display(li.item.id) \o <<" has unspecified defects">>
    ELSE IF Len(issues) = 1
    THEN <<"Item ">> \o Display(li.item.id) \o <<" ">> \o issues[1]
    ELSE <<"Item ">> \o Display(li.item.id) \o <<" has multiple issues: ">> \o join(issues, "; ")

\* An f64 that is zero or positive and finite is zero, or its significand
\* and exponent: the 53 bits of the significand, the most significant (a 1)
\* first, and the power of two of the last of them; the value is
\* significand * 2^exponent.
F64Zero == [significand |-> <<>>, exponent |-> 0]

\* The last width bits of a whole number, the most significant first
fixed_bits(n, width) == [k \in 1..width |-> (n \div 2^(width - k)) % 2]

\* The bits without the zeros that lead them
strip_zeros(bits) ==
    IF \A k \in 1..Len(bits) : bits[k] = 0 THEN <<>>
    ELSE SubSeq(bits, CHOOSE k \in 1..Len(bits) :
                          bits[k] = 1 /\ \A j \in 1..(k - 1) : bits[j] = 0,
                Len(bits))

\* The bits of a whole number below 2^30, the most significant first; none
\* for 0
bits_of(n) == strip_zeros(fixed_bits(n, 30))

\* The whole number of up to 30 bits
RECURSIVE value_of(_)
value_of(bits) ==
    IF Len(bits) = 0 THEN 0
    ELSE IF Len(bits) = 1 THEN bits[1]
    ELSE value_of(SubSeq(bits, 1, Len(bits) \div 2)) * 2^(Len(bits) - Len(bits) \div 2)
             + value_of(SubSeq(bits, Len(bits) \div 2 + 1, Len(bits)))

\* The bits of the number plus one
increment(bits) ==
    IF \A k \in 1..Len(bits) : bits[k] = 1 THEN <<1>> \o [k \in 1..Len(bits) |-> 0]
    ELSE LET last == CHOOSE k \in 1..Len(bits) :
                         bits[k] = 0 /\ \A j \in (k + 1)..Len(bits) : bits[j] = 1
         IN  [k \in 1..Len(bits) |-> IF k < last THEN bits[k] ELSE IF k = last THEN 1 ELSE 0]

\* The f64 nearest to bits * 2^exponent (plus a rest below the last bit
\* when sticky), a tie going to the even significand
round_to_f64(bits, exponent, sticky) ==
    IF Len(bits) <= 53
    THEN [significand |-> bits \o [k \in 1..(53 - Len(bits)) |-> 0],
          exponent |-> exponent - (53 - Len(bits))]
    ELSE LET kept == SubSeq(bits, 1, 53)
             dropped == SubSeq(bits, 54, Len(bits))
             below == sticky \/ \E k \in 2..Len(dropped) : dropped[k] = 1
             rounded == IF dropped[1] = 1 /\ (below \/ kept[53] = 1)
                        THEN increment(kept) ELSE kept
         IN  IF Len(rounded) = 54
             THEN [significand |-> SubSeq(rounded, 1, 53),
                   exponent |-> exponent + Len(dropped) + 1]
             ELSE [significand |-> rounded, exponent |-> exponent + Len(dropped)]

\* n as f64, for a count n: exact
as_f64(n) == IF n = 0 THEN F64Zero ELSE round_to_f64(bits_of(n), 0, FALSE)

\* Long division: the bits of the quotient after those in bits, up to the
\* 53 of the significand and at least one more, r being the remainder so far;
\* ten bits a step, for divisors below 2^20
RECURSIVE quotient_bits(_, _, _, _)
quotient_bits(r, b, bits, exponent) ==
    IF Len(bits) >= 54 \/ r = 0 THEN [bits |-> bits, exponent |-> exponent, sticky |-> r # 0]
    ELSE quotient_bits((r * 2^10) % b, b,
                       strip_zeros(bits \o fixed_bits((r * 2^10) \div b, 10)),
                       exponent - 10)

\* a as f64 / b as f64, for counts a and b > 0: the quotient rounded once
f64_div(a, b) ==
    IF a = 0 THEN F64Zero
    ELSE LET round(q) == round_to_f64(q.bits, q.exponent, q.sticky)
         IN  round(quotient_bits(a % b, b, bits_of(a \div b), 0))

\* The bits of bits * k + carry, for a whole k > 0 below 2^12; eighteen bits
\* a step
RECURSIVE times(_, _, _)
times(bits, k, carry) ==
    IF Len(bits) <= 18 THEN bits_of(value_of(bits) * k + carry)
    ELSE LET low == value_of(SubSeq(bits, Len(bits) - 17, Len(bits))) * k + carry
         IN  times(SubSeq(bits, 1, Len(bits) - 18), k, low \div 2^18)
                 \o fixed_bits(low % 2^18, 18)

\* q * k as f64, for an f64 q and a whole k > 0 that is an f64 (100.0): the
\* product rounded once
f64_mul(q, k) ==
    IF q = F64Zero THEN F64Zero
    ELSE round_to_f64(times(q.significand, k, 0), q.exponent, FALSE)

\* Variant of summarize_group: a defective item does not count as covered.
summarize_group_without_defects(group) ==
    LET total == Len(group)
        covered == Len(SelectSeq(group, LAMBDA li : is_covered(li) /\ ~li.is_defect))
    IN  [total |-> total, covered |-> covered,
         percentage |-> IF total > 0 THEN f64_mul(f64_div(covered, total), 100)
                        ELSE as_f64(100),
         status |-> IF covered = total THEN "Covered"
                    ELSE IF covered > 0 THEN "Partial"
                    ELSE "Uncovered"]

\* analyze_trace, the body of the loop over artifact_groups
summarize_group(group) ==
    LET total == Len(group)
        covered == Len(SelectSeq(group, is_covered))
    IN  [total |-> total, covered |-> covered,
         percentage |-> IF total > 0 THEN f64_mul(f64_div(covered, total), 100)
                        ELSE as_f64(100),
         status |-> IF covered = total THEN "Covered"
                    ELSE IF covered > 0 THEN "Partial"
                    ELSE "Uncovered"]

artifact_groups(lis) ==
    [t \in {lis[k].item.id.artifact_type : k \in 1..Len(lis)} |->
        SelectSeq(lis, LAMBDA li : li.item.id.artifact_type = t)]

RECURSIVE summarize_groups(_, _, _, _)
summarize_groups(groups, order, k, summary) ==
    IF k > Len(order) THEN summary
    ELSE summarize_groups(groups, order, k + 1,
                          MapInsert(summary, order[k], summarize_group(groups[order[k]])))

\* Variant of collect_defects: a defect is put in front of the list.
RECURSIVE collect_defects_newest_first(_, _)
collect_defects_newest_first(lis, k) ==
    IF k > Len(lis) THEN <<>>
    ELSE collect_defects_newest_first(lis, k + 1)
         \o (IF lis[k].is_defect
             THEN <<[defect_type |-> "UncoveredItem",
                     description |-> generate_detailed_defect_description(lis[k]),
                     item_id |-> lis[k].item.id]>>
             ELSE <<>>)

RECURSIVE collect_defects(_, _)
collect_defects(lis, k) ==
    IF k > Len(lis) THEN <<>>
    ELSE (IF lis[k].is_defect
          THEN <<[defect_type |-> "UncoveredItem",
                  description |-> generate_detailed_defect_description(lis[k]),
                  item_id |-> lis[k].item.id]>>
          ELSE <<>>)
         \o collect_defects(lis, k + 1)

\* group_order: the order in which the artifact_groups map iterates
analyze_trace(lis, group_order) ==
    LET defects == collect_defects(lis, 1) IN
    [items |-> lis,
     total_items |-> Len(lis),
     defect_count |-> Len(defects),
     defects |-> defects,
     coverage_summary |-> summarize_groups(artifact_groups(lis), group_order, 1, EmptyMap),
     is_success |-> Len(defects) = 0]

\* Variant of coverage_percentage: the items that are Covered are counted.
coverage_percentage_from_statuses(tr) ==
    IF tr.total_items = 0 THEN as_f64(100)
    ELSE LET covered_items == Len(SelectSeq(tr.items, is_covered))
         IN  f64_mul(f64_div(covered_items, tr.total_items), 100)

\* TraceResult::coverage_percentage
coverage_percentage(tr) ==
    IF tr.total_items = 0 THEN as_f64(100)
    ELSE LET covered_items == tr.total_items - tr.defect_count
         IN  f64_mul(f64_div(covered_items, tr.total_items), 100)

\* ------------------------------------------------------------------------
\* Tag importer (tag_importer.rs)
\* ------------------------------------------------------------------------
\* A scanned line is given by the matches the two regexes find in it, each
\* match by its capture groups; an optional group is <<>> or <<text>>.  A
\* file is its path, whether it can be read, and its lines.  A path is its
\* leading directory, the rest up to the extension, and the extension.
Location_new(path, line) == [path |-> path, line |-> line]

\* impl Display for Location: "{}:{}"
Location_to_string(location) == location.path \o <<":">> \o u32_to_string(location.line)

\* SpecificationItem::builder(id) ... build(): the fields the linker reads,
\* and the location
SpecificationItem_build(id, covers, needs, location) ==
    [id |-> id, needs |-> needs, covers |-> covers, location |-> location]

\* DefaultHasher is a fixed function of the string it is fed.  Its 64-bit
\* value is not computed: the printed hash of a string is a term naming the
\* string, so different strings have different hashes.
generate_hash(input) == <<"hash(">> \o input \o <<")">>

Error_Parse(message, location) ==
    [ok |-> FALSE, error |-> "Parse", message |-> message,
     location |-> Location_to_string(location)]

\* char::is_whitespace on the pieces that are one character
IsWhitespace(c) == c \in {" ", "\t", "\n"}

\* str::trim, on pieces
RECURSIVE trim(_)
trim(s) ==
    IF Len(s) > 0 /\ IsWhitespace(s[1]) THEN trim(Tail(s))
    ELSE IF Len(s) > 0 /\ IsWhitespace(s[Len(s)]) THEN trim(SubSeq(s, 1, Len(s) - 1))
    ELSE s

parse_needs_list(needs_str) ==
    LET parts == split(needs_str, ",")
        trimmed == [k \in 1..Len(parts) |-> trim(parts[k])]
    IN  SelectSeq(trimmed, LAMBDA part : Len(part) # 0)

\* Variant of parse_full_tag: the synthetic name hashes the path only.
parse_full_tag_hash_of_path(captures, location) ==
    LET covered_revision == parse_u32(captures.covered_revision) IN
    IF ~covered_revision.ok
    THEN Error_Parse(<<"Invalid revision number: ">> \o captures.covered_revision, location)
    ELSE LET item_name ==
                 IF Len(captures.name) = 1 /\ Len(captures.revision) = 1
                 THEN captures.name[1]
                 ELSE captures.covered_name \o <<"-">> \o generate_hash(location.path)
             item_revision ==
                 IF Len(captures.revision) = 1 THEN parse_u32(captures.revision[1])
                 ELSE [ok |-> TRUE, value |-> u32(0)]
         IN  IF ~item_revision.ok
             THEN Error_Parse(<<"Invalid revision number: ">> \o captures.revision[1], location)
             ELSE [ok |-> TRUE,
                   value |-> <<SpecificationItem_build(
                                   NewId(captures.artifact_type, item_name, item_revision.value),
                                   <<NewId(captures.covered_artifact_type, captures.covered_name,
                                           covered_revision.value)>>,
                                   IF Len(captures.needs) = 1
                                   THEN parse_needs_list(captures.needs[1]) ELSE <<>>,
                                   location)>>]

\* parse_full_tag: Ok(Some(item)) is [ok |-> TRUE, value |-> <<item>>]
parse_full_tag(captures, location) ==
    LET covered_revision == parse_u32(captures.covered_revision) IN
    IF ~covered_revision.ok
    THEN Error_Parse(<<"Invalid revision number: ">> \o captures.covered_revision, location)
    ELSE LET item_name ==
                 IF Len(captures.name) = 1 /\ Len(captures.revision) = 1
                 THEN captures.name[1]
                 ELSE captures.covered_name \o <<"-">>
                      \o generate_hash(Location_to_string(location))
             item_revision ==
                 IF Len(captures.revision) = 1 THEN parse_u32(captures.revision[1])
                 ELSE [ok |-> TRUE, value |-> u32(0)]
         IN  IF ~item_revision.ok
             THEN Error_Parse(<<"Invalid revision number: ">> \o captures.revision[1], location)
             ELSE [ok |-> TRUE,
                   value |-> <<SpecificationItem_build(
                                   NewId(captures.artifact_type, item_name, item_revision.value),
                                   <<NewId(captures.covered_artifact_type, captures.covered_name,
                                           covered_revision.value)>>,
                                   IF Len(captures.needs) = 1
                                   THEN parse_needs_list(captures.needs[1]) ELSE <<>>,
                                   location)>>]

parse_short_tag(captures, location) ==
    LET covered_revision == parse_u32(captures.covered_revision) IN
    IF ~covered_revision.ok
    THEN Error_Parse(<<"Invalid revision number: ">> \o captures.covered_revision, location)
    ELSE LET item_name == captures.covered_name \o <<"-">>
                          \o generate_hash(Location_to_string(location))
         IN  [ok |-> TRUE,
              value |-> <<SpecificationItem_build(
                              NewId(captures.artifact_type, item_name, u32(0)),
                              <<NewId(captures.covered_artifact_type, captures.covered_name,
                                      covered_revision.value)>>,
                              <<>>,
                              location)>>]

\* parse_line, one loop over the matches of a regex: the first error returns
RECURSIVE parse_tags(_, _, _, _, _)
parse_tags(kind, matches, k, location, parsed_items) ==
    IF k > Len(matches) THEN [ok |-> TRUE, value |-> parsed_items]
    ELSE LET r == IF kind = "full" THEN parse_full_tag(matches[k], location)
                  ELSE parse_short_tag(matches[k], location)
         IN  IF ~r.ok THEN r
             ELSE parse_tags(kind, matches, k + 1, location, parsed_items \o r.value)

\* parse_line: the full tags of the line, then its short tags
parse_line(line, file_path, line_number) ==
    LET location == Location_new(file_path, line_number)
        full == parse_tags("full", line.full_tags, 1, location, <<>>)
    IN  IF ~full.ok THEN full
        ELSE parse_tags("short", line.short_tags, 1, location, full.value)

\* import_from_file, the loop over the lines; the k-th line has number k
RECURSIVE import_lines(_, _, _, _)
import_lines(lines, k, file_path, file_items) ==
    IF k > Len(lines) THEN [ok |-> TRUE, value |-> file_items]
    ELSE LET r == parse_line(lines[k], file_path, u32(k)) IN
         IF ~r.ok THEN r
         ELSE import_lines(lines, k + 1, file_path, file_items \o r.value)

\* TagImporter::import_from_file
TagImporter_import_from_file(file) ==
    IF ~file.readable THEN [ok |-> FALSE, error |-> "Io"]
    ELSE import_lines(file.lines, 1, file.path, <<>>)

\* Config::default(): the extensions source_patterns accept, the extensions
\* and the leading directories exclude_patterns reject
SourceExtensions ==
    {".rs", ".adl", ".atl", ".java", ".c", ".cpp", ".h", ".hpp", ".py", ".js", ".ts",
     ".go", ".rb", ".php", ".sh", ".sql"}

ExcludedExtensions == {".tmp", ".bak"}

ExcludedDirectories == {"target/", "node_modules/", ".git/"}

\* Config::matches_source_pattern
matches_source_pattern(path) ==
    IF path[1] \in ExcludedDirectories \/ path[Len(path)] \in ExcludedExtensions THEN FALSE
    ELSE path[Len(path)] \in SourceExtensions

\* TagImporter::should_scan_file
should_scan_file(path) == matches_source_pattern(path)

\* A directory is whether it exists and what WalkDir yields for it: per
\* entry an error, or the entry with its path and whether it is a file.
\* TagImporter::import_from_directory, the loop over the entries that are Ok
RECURSIVE tag_walk(_, _, _)
tag_walk(entries, k, imported) ==
    IF k > Len(entries) THEN [ok |-> TRUE, value |-> imported]
    ELSE IF entries[k].is_file /\ should_scan_file(entries[k].path)
         THEN LET extend(file_items) ==
                      IF ~file_items.ok THEN file_items
                      ELSE tag_walk(entries, k + 1, imported \o file_items.value)
              IN  extend(TagImporter_import_from_file(entries[k]))
         ELSE tag_walk(entries, k + 1, imported)

\* Variant of TagImporter_import_from_directory: a directory that does not
\* exist is an Io error.
TagImporter_import_from_directory_missing_fails(dir) ==
    IF ~dir.exists THEN [ok |-> FALSE, error |-> "Io"]
    ELSE tag_walk(SelectSeq(dir.walk, LAMBDA e : e.ok), 1, <<>>)

\* TagImporter::import_from_directory: filter_map(|e| e.ok()) drops the
\* entries WalkDir could not yield
TagImporter_import_from_directory(dir) ==
    IF ~dir.exists THEN [ok |-> TRUE, value |-> <<>>]
    ELSE tag_walk(SelectSeq(dir.walk, LAMBDA e : e.ok), 1, <<>>)

\* ------------------------------------------------------------------------
\* Markdown importer (markdown_importer.rs)
\* ------------------------------------------------------------------------
\* A line is a sequence of pieces: a word of letters, a keyword with its
\* colon, or one character (a space, a digit, "#", "*", "-", "+", "~", ",",
\* or the backtick). chars gives the characters of a word where a search
\* looks inside it.
\* The piece that is the backtick character
Backtick == "backtick"

\* Config::is_spec_file: the extension is md or markdown, in any case
ascii_lowercase(ext) ==
    CASE ext = ".MD" -> ".md"
      [] ext = ".Markdown" -> ".markdown"
      [] OTHER -> ext

\* The pieces of a path that are a directory with its separator, and the
\* pieces that are a dot with what follows the last dot of a file name
DirectoryPieces == {"src/", "docs/", "target/", "node_modules/", ".git/"}

ExtensionPieces ==
    {".rs", ".adl", ".atl", ".java", ".c", ".cpp", ".h", ".hpp", ".py", ".js", ".ts",
     ".go", ".rb", ".php", ".sh", ".sql", ".tmp", ".bak", ".txt",
     ".md", ".MD", ".markdown", ".Markdown"}

\* Path::extension: <<>> for None; a file name that is only a dot and what
\* follows it (".md") has no extension
Path_extension(path) ==
    IF /\ Len(path) >= 2
       /\ path[Len(path)] \in ExtensionPieces
       /\ path[Len(path) - 1] \notin DirectoryPieces
    THEN <<path[Len(path)]>>
    ELSE <<>>

is_spec_file(path) ==
    /\ Len(Path_extension(path)) # 0
    /\ ascii_lowercase(Path_extension(path)[1]) \in {".md", ".markdown"}

is_markdown_file(path) == is_spec_file(path)

\* [a-zA-Z]: the pieces that are words of letters
LetterWords == {"req", "impl", "dsn", "x", "y", "h", "a", "Auth", "Login", "text", "note",
                "draft", "approved", "proposed", "rejected"}

\* [a-zA-Z0-9._-]: the pieces made of these characters
IsNameChars(c) == c \in LetterWords \/ to_digit(c) >= 0 \/ c \in {".", "_", "-"}

\* (?i): the lower-case spelling of a keyword or status word
to_lowercase(piece) ==
    CASE piece = "Needs:" -> "needs:"
      [] piece = "Covers:" -> "covers:"
      [] piece = "Depends:" -> "depends:"
      [] piece = "Tags:" -> "tags:"
      [] piece = "Status:" -> "status:"
      [] piece = "Rationale:" -> "rationale:"
      [] piece = "Comment:" -> "comment:"
      [] OTHER -> piece

\* str::trim_start
RECURSIVE trim_start(_)
trim_start(s) == IF Len(s) > 0 /\ IsWhitespace(s[1]) THEN trim_start(Tail(s)) ELSE s

\* str::trim_start_matches(c)
RECURSIVE trim_start_matches(_, _)
trim_start_matches(s, c) ==
    IF Len(s) > 0 /\ s[1] = c THEN trim_start_matches(Tail(s), c) ELSE s

\* The characters of a piece that is a word; any other piece is one character
chars(piece) ==
    CASE piece = "req" -> <<"r", "e", "q">>
      [] piece = "impl" -> <<"i", "m", "p", "l">>
      [] piece = "dsn" -> <<"d", "s", "n">>
      [] piece = "Auth" -> <<"A", "u", "t", "h">>
      [] piece = "Login" -> <<"L", "o", "g", "i", "n">>
      [] piece = "text" -> <<"t", "e", "x", "t">>
      [] piece = "note" -> <<"n", "o", "t", "e">>
      [] piece = "draft" -> <<"d", "r", "a", "f", "t">>
      [] piece = "approved" -> <<"a", "p", "p", "r", "o", "v", "e", "d">>
      [] piece = "proposed" -> <<"p", "r", "o", "p", "o", "s", "e", "d">>
      [] piece = "rejected" -> <<"r", "e", "j", "e", "c", "t", "e", "d">>
      [] piece = "Needs:" -> <<"N", "e", "e", "d", "s", ":">>
      [] piece = "needs:" -> <<"n", "e", "e", "d", "s", ":">>
      [] piece = "Covers:" -> <<"C", "o", "v", "e", "r", "s", ":">>
      [] piece = "covers:" -> <<"c", "o", "v", "e", "r", "s", ":">>
      [] piece = "Depends:" -> <<"D", "e", "p", "e", "n", "d", "s", ":">>
      [] piece = "depends:" -> <<"d", "e", "p", "e", "n", "d", "s", ":">>
      [] piece = "Tags:" -> <<"T", "a", "g", "s", ":">>
      [] piece = "tags:" -> <<"t", "a", "g", "s", ":">>
      [] piece = "Status:" -> <<"S", "t", "a", "t", "u", "s", ":">>
      [] piece = "status:" -> <<"s", "t", "a", "t", "u", "s", ":">>
      [] piece = "Rationale:" -> <<"R", "a", "t", "i", "o", "n", "a", "l", "e", ":">>
      [] piece = "rationale:" -> <<"r", "a", "t", "i", "o", "n", "a", "l", "e", ":">>
      [] piece = "Comment:" -> <<"C", "o", "m", "m", "e", "n", "t", ":">>
      [] piece = "comment:" -> <<"c", "o", "m", "m", "e", "n", "t", ":">>
      [] OTHER -> <<piece>>

\* The characters of a string
RECURSIVE to_chars(_)
to_chars(s) == IF Len(s) = 0 THEN <<>> ELSE chars(s[1]) \o to_chars(Tail(s))

\* str::len: the length in characters
len(s) == Len(to_chars(s))

\* The offset of the first occurrence of the characters sought in text, from
\* offset k on; -1 for None
RECURSIVE find_from(_, _, _)
find_from(text, sought, k) ==
    IF k + Len(sought) > Len(text) THEN -1
    ELSE IF SubSeq(text, k + 1, k + Len(sought)) = sought THEN k
    ELSE find_from(text, sought, k + 1)

\* str::find: the offset in characters of the first occurrence of pattern as
\* a substring, which may begin or end inside a word; -1 for None
find(s, pattern) == find_from(to_chars(s), to_chars(pattern), 0)

\* &s[offset..]: the string from a character offset on; a word the offset
\* falls inside is cut, its remaining characters kept
RECURSIVE slice_from(_, _)
slice_from(s, offset) ==
    IF offset = 0 \/ Len(s) = 0 THEN s
    ELSE IF offset >= Len(chars(s[1])) THEN slice_from(Tail(s), offset - Len(chars(s[1])))
    ELSE SubSeq(chars(s[1]), offset + 1, Len(chars(s[1]))) \o Tail(s)

is_heading(line) == Len(trim_start(line)) > 0 /\ trim_start(line)[1] = "#"

extract_heading_text(line) == trim(trim_start_matches(trim_start(line), "#"))

\* \d+ from piece k on
RECURSIVE digits_from(_, _)
digits_from(s, k) ==
    IF k <= Len(s) /\ to_digit(s[k]) >= 0 THEN <<s[k]>> \o digits_from(s, k + 1) ELSE <<>>

\* [a-zA-Z]+ from piece k on: the pieces it takes, being greedy
RECURSIVE letters_from(_, _)
letters_from(s, k) ==
    IF k >= 1 /\ k <= Len(s) /\ s[k] \in LetterWords
    THEN <<s[k]>> \o letters_from(s, k + 1) ELSE <<>>

\* [a-zA-Z0-9._-]+ from piece k on
RECURSIVE name_from(_, _)
name_from(s, k) ==
    IF k >= 1 /\ k <= Len(s) /\ IsNameChars(s[k])
    THEN <<s[k]>> \o name_from(s, k + 1) ELSE <<>>

\* The piece of s at k is c
piece_is(s, k, c) == k >= 1 /\ k <= Len(s) /\ s[k] = c

\* ([a-zA-Z]+)~([a-zA-Z0-9._-]+)~(\d+) from piece k on: the groups, and
\* the piece after the match
item_ref_from(s, k) ==
    LET artifact_type == letters_from(s, k)
        name == name_from(s, k + Len(artifact_type) + 1)
        revision == digits_from(s, k + Len(artifact_type) + Len(name) + 2)
    IN  [artifact_type |-> artifact_type, name |-> name, revision |-> revision,
         end |-> k + Len(artifact_type) + Len(name) + Len(revision) + 2]

\* ([a-zA-Z]+)~([a-zA-Z0-9._-]+)~(\d+) matching from piece k
item_ref_at(s, k) ==
    LET matched(match) ==
            /\ piece_is(s, k + Len(match.artifact_type), "~")
            /\ Len(match.name) # 0
            /\ piece_is(s, match.end - Len(match.revision) - 1, "~")
            /\ Len(match.revision) # 0
    IN  /\ k >= 1
        /\ k <= Len(s)
        /\ s[k] \in LetterWords
        /\ matched(item_ref_from(s, k))

\* The capture groups of a match
groups(match) ==
    [artifact_type |-> match.artifact_type, name |-> match.name, revision |-> match.revision]

\* The first piece from k on where item_ref_regex matches, 0 for none
RECURSIVE item_ref_first(_, _)
item_ref_first(s, k) ==
    IF k > Len(s) THEN 0
    ELSE IF item_ref_at(s, k) THEN k
    ELSE item_ref_first(s, k + 1)

\* item_ref_regex.captures: <<>> for None, else the groups of the leftmost match
item_ref_captures(s) ==
    LET captures(k) == IF k = 0 THEN <<>> ELSE <<groups(item_ref_from(s, k))>>
    IN  captures(item_ref_first(s, 1))

\* `([a-zA-Z]+)~([a-zA-Z0-9._-]+)~(\d+)` matching from piece k
id_at(s, k) ==
    /\ piece_is(s, k, Backtick)
    /\ item_ref_at(s, k + 1)
    /\ piece_is(s, item_ref_from(s, k + 1).end, Backtick)

\* The first piece from k on where id_regex matches, 0 for none
RECURSIVE id_first(_, _)
id_first(s, k) ==
    IF k > Len(s) THEN 0
    ELSE IF id_at(s, k) THEN k
    ELSE id_first(s, k + 1)

\* id_regex.captures
id_captures(s) ==
    LET captures(k) == IF k = 0 THEN <<>> ELSE <<groups(item_ref_from(s, k + 1))>>
    IN  captures(id_first(s, 1))

RECURSIVE count_leading(_, _)
count_leading(s, c) ==
    IF Len(s) > 0 /\ s[1] = c THEN 1 + count_leading(Tail(s), c) ELSE 0

drop(s, n) == SubSeq(s, n + 1, Len(s))

\* (?i)^\*?\*?Keyword: -- <<>> for no match, else what follows the keyword
keyword_rest(line, keyword) ==
    LET stars == count_leading(line, "*") IN
    IF stars <= 2 /\ Len(line) > stars /\ to_lowercase(line[stars + 1]) = keyword
    THEN <<drop(line, stars + 1)>>
    ELSE <<>>

\* \*?\*?\s*$ on what follows the keyword
only_stars_and_space(rest) ==
    \E stars \in 0..2 : stars <= count_leading(rest, "*") /\ Len(trim_start(drop(rest, stars))) = 0

\* covers_regex, depends_regex, rationale_regex, comment_regex: is_match
keyword_is_match(line, keyword) ==
    Len(keyword_rest(line, keyword)) = 1 /\ only_stars_and_space(keyword_rest(line, keyword)[1])

\* \*?\*?\s*(.+)$ on what follows the keyword: the stars and the spaces are
\* greedy, and give back what the group needs to be non-empty
rest_capture(rest) ==
    LET stars == IF count_leading(rest, "*") > 2 THEN 2 ELSE count_leading(rest, "*")
        after == drop(rest, stars)
    IN  IF Len(trim_start(after)) > 0 THEN <<trim_start(after)>>
        ELSE IF Len(after) > 0 THEN <<drop(after, Len(after) - 1)>>
        ELSE IF stars > 0 THEN <<<<"*">>>>
        ELSE <<>>

\* needs_regex, covers_inline_regex, tags_regex: captures, group 1
keyword_captures(line, keyword) ==
    IF Len(keyword_rest(line, keyword)) = 0 THEN <<>>
    ELSE rest_capture(keyword_rest(line, keyword)[1])

StatusWords == {"draft", "proposed", "approved", "rejected"}

\* status_regex.captures, group 1
status_captures(line) ==
    IF Len(keyword_rest(line, "status:")) = 0 THEN <<>>
    ELSE LET rest == keyword_rest(line, "status:")[1]
             stars == IF count_leading(rest, "*") > 2 THEN 2 ELSE count_leading(rest, "*")
             word == trim(drop(rest, stars))
         IN  IF Len(word) = 1 /\ to_lowercase(word[1]) \in StatusWords THEN <<word[1]>> ELSE <<>>

\* the match on status_str.to_lowercase()
status_of(status_str) ==
    CASE to_lowercase(status_str) = "draft" -> "Draft"
      [] to_lowercase(status_str) = "proposed" -> "Proposed"
      [] to_lowercase(status_str) = "rejected" -> "Rejected"
      [] OTHER -> "Approved"

parse_list(list_str) ==
    LET parts == split(list_str, ",")
        trimmed == [k \in 1..Len(parts) |-> trim(parts[k])]
    IN  SelectSeq(trimmed, LAMBDA part : Len(part) # 0)

\* extract_item_reference: <<>> for None, else the identifier
extract_item_reference(line) ==
    IF Len(item_ref_captures(line)) = 0 THEN <<>>
    ELSE LET captures == item_ref_captures(line)[1] IN
         IF parse_u32(captures.revision).ok
         THEN <<NewId(captures.artifact_type, captures.name, parse_u32(captures.revision).value)>>
         ELSE <<>>

\* parse_covers_list, the closure of filter_map on one part
covers_of_part(part) ==
    IF Len(item_ref_captures(part)) = 0 THEN <<>>
    ELSE LET captures == item_ref_captures(part)[1] IN
         IF parse_u32(captures.revision).ok
         THEN <<NewId(captures.artifact_type, captures.name, parse_u32(captures.revision).value)>>
         ELSE <<>>

RECURSIVE concat(_)
concat(seqs) == IF Len(seqs) = 0 THEN <<>> ELSE seqs[1] \o concat(Tail(seqs))

parse_covers_list(covers_str) ==
    LET parts == parse_list(covers_str)
    IN  concat([k \in 1..Len(parts) |-> covers_of_part(parts[k])])

\* SpecificationItem::new: an Option is <<>> for None and <<v>> for Some(v)
SpecificationItem_new(id) ==
    [id |-> id, title |-> <<>>, description |-> <<>>, rationale |-> <<>>, comment |-> <<>>,
     status |-> "Approved", tags |-> <<>>, needs |-> <<>>, covers |-> <<>>, depends |-> <<>>,
     location |-> <<>>]

\* append_to_section: the Covers and Depends sections default to the description
append_to_section(st, line) ==
    LET text == IF Len(trim(line)) = 0 THEN <<"\n">> ELSE line \o <<"\n">> IN
    CASE st.current_section = "Rationale" -> [st EXCEPT !.rationale = @ \o text]
      [] st.current_section = "Comment" -> [st EXCEPT !.comment = @ \o text]
      [] OTHER -> [st EXCEPT !.description = @ \o text]

is_bullet(line) == Len(trim(line)) > 0 /\ trim(line)[1] \in {"-", "*", "+"}

\* the bullet branch of the loop of parse_specification_item
bullet_line(st, line) ==
    CASE st.current_section = "Covers" ->
             [st EXCEPT !.covers_list = @ \o extract_item_reference(line)]
      [] st.current_section = "Depends" ->
             [st EXCEPT !.depends_list = @ \o extract_item_reference(line)]
      [] OTHER -> append_to_section(st, line)

\* one turn of the loop of parse_specification_item on a line that does not
\* start the next item
content_line(st, line) ==
    IF Len(keyword_captures(line, "needs:")) # 0
    THEN [st EXCEPT !.builder.needs = @ \o parse_list(keyword_captures(line, "needs:")[1])]
    ELSE IF Len(keyword_captures(line, "covers:")) # 0
    THEN [st EXCEPT !.builder.covers =
                        @ \o parse_covers_list(keyword_captures(line, "covers:")[1])]
    ELSE IF keyword_is_match(line, "covers:") THEN [st EXCEPT !.current_section = "Covers"]
    ELSE IF keyword_is_match(line, "depends:") THEN [st EXCEPT !.current_section = "Depends"]
    ELSE IF Len(keyword_captures(line, "tags:")) # 0
    THEN [st EXCEPT !.builder.tags = @ \o parse_list(keyword_captures(line, "tags:")[1])]
    ELSE IF Len(status_captures(line)) # 0
    THEN [st EXCEPT !.builder.status = status_of(status_captures(line)[1])]
    ELSE IF keyword_is_match(line, "rationale:") THEN [st EXCEPT !.current_section = "Rationale"]
    ELSE IF keyword_is_match(line, "comment:") THEN [st EXCEPT !.current_section = "Comment"]
    ELSE IF is_bullet(line) THEN bullet_line(st, line)
    ELSE IF Len(trim(line)) # 0 THEN append_to_section(st, line)
    ELSE st

\* the test that ends the loop: the line starts the next item
starts_item(line) ==
    \/ Len(id_captures(line)) # 0
    \/ is_heading(line) /\ Len(item_ref_captures(extract_heading_text(line))) # 0

\* Variant of the loop: the line that ends an item is consumed with it.
RECURSIVE item_content_consuming_boundary(_, _, _)
item_content_consuming_boundary(lines, k, st) ==
    IF k > Len(lines) THEN [line_number |-> k, st |-> st]
    ELSE IF starts_item(lines[k]) THEN [line_number |-> k, st |-> st]
    ELSE item_content_consuming_boundary(lines, k + 1, content_line(st, lines[k]))

\* parse_specification_item, the loop over the lines after the declaration:
\* line_number is the 1-based number of the last line it has consumed
RECURSIVE item_content(_, _, _)
item_content(lines, k, st) ==
    IF k > Len(lines) THEN [line_number |-> k, st |-> st]
    ELSE IF starts_item(lines[k]) THEN [line_number |-> k - 1, st |-> st]
    ELSE item_content(lines, k + 1, content_line(st, lines[k]))

\* the title taken from the line before the declaration
title_from_previous(builder, lines, k) ==
    IF k > 1 /\ is_heading(lines[k - 1])
    THEN [builder EXCEPT !.title = <<extract_heading_text(lines[k - 1])>>]
    ELSE builder

\* the title taken from the declaration line when it is a heading
title_from_declaration(builder, line, id) ==
    IF ~is_heading(line) THEN builder
    ELSE LET titled(heading_text, identifier) ==
                 LET after(title_part) ==
                         IF Len(title_part) # 0 THEN [builder EXCEPT !.title = <<title_part>>]
                         ELSE [builder EXCEPT !.title = <<identifier>>]
                     found(pos) ==
                         IF pos = -1 THEN [builder EXCEPT !.title = <<heading_text>>]
                         ELSE after(trim(slice_from(heading_text, pos + len(identifier))))
                 IN  found(find(heading_text, identifier))
         IN  titled(extract_heading_text(line), Display(id))

\* the builder with its location and title, before the loop
item_title(id, lines, k) ==
    title_from_declaration(title_from_previous(SpecificationItem_new(id), lines, k), lines[k], id)

\* the sections set after the loop, and the lists of the bullets
item_sections(st) ==
    [st.builder EXCEPT
        !.description = IF Len(trim(st.description)) # 0 THEN <<trim(st.description)>> ELSE @,
        !.rationale = IF Len(trim(st.rationale)) # 0 THEN <<trim(st.rationale)>> ELSE @,
        !.comment = IF Len(trim(st.comment)) # 0 THEN <<trim(st.comment)>> ELSE @,
        !.covers = @ \o st.covers_list,
        !.depends = @ \o st.depends_list]

\* parse_specification_item for the declaration on line k with the given
\* captures
parse_specification_item(lines, k, file_path, captures) ==
    IF ~parse_u32(captures.revision).ok
    THEN Error_Parse(<<"Invalid revision number: ">> \o captures.revision,
                     Location_new(file_path, u32(k)))
    ELSE LET id == NewId(captures.artifact_type, captures.name,
                         parse_u32(captures.revision).value)
             build(content) ==
                 [ok |-> TRUE, line_number |-> content.line_number,
                  value |-> item_sections(content.st)]
         IN  build(item_content(lines, k + 1,
                 [builder |-> [item_title(id, lines, k) EXCEPT
                                   !.location = <<Location_new(file_path, u32(k))>>],
                  current_section |-> "Description",
                  description |-> <<>>, rationale |-> <<>>, comment |-> <<>>,
                  covers_list |-> <<>>, depends_list |-> <<>>]))

\* the captures of the declaration on a line, <<>> when it declares nothing
declaration(line) ==
    IF Len(id_captures(line)) # 0 THEN id_captures(line)
    ELSE IF is_heading(line) THEN item_ref_captures(extract_heading_text(line))
    ELSE <<>>

RECURSIVE parse_markdown_from(_, _, _, _)
parse_markdown_from(lines, k, file_path, parsed) ==
    IF k > Len(lines) THEN [ok |-> TRUE, value |-> parsed]
    ELSE IF Len(declaration(lines[k])) # 0
         THEN LET push(item) ==
                      IF ~item.ok THEN item
                      ELSE parse_markdown_from(lines, item.line_number + 1, file_path,
                                               Append(parsed, item.value))
              IN  push(parse_specification_item(lines, k, file_path, declaration(lines[k])[1]))
         ELSE parse_markdown_from(lines, k + 1, file_path, parsed)

parse_markdown(lines, file_path) == parse_markdown_from(lines, 1, file_path, <<>>)

\* MarkdownImporter::import_from_file
MarkdownImporter_import_from_file(file) ==
    IF ~file.readable THEN [ok |-> FALSE, error |-> "Io"]
    ELSE parse_markdown(file.lines, file.path)

RECURSIVE markdown_walk(_, _, _)
markdown_walk(entries, k, imported) ==
    IF k > Len(entries) THEN [ok |-> TRUE, value |-> imported]
    ELSE IF entries[k].is_file /\ is_markdown_file(entries[k].path)
         THEN LET extend(file_items) ==
                      IF ~file_items.ok THEN file_items
                      ELSE markdown_walk(entries, k + 1, imported \o file_items.value)
              IN  extend(MarkdownImporter_import_from_file(entries[k]))
         ELSE markdown_walk(entries, k + 1, imported)

\* MarkdownImporter::import_from_directory
MarkdownImporter_import_from_directory(dir) ==
    IF ~dir.exists THEN [ok |-> TRUE, value |-> <<>>]
    ELSE markdown_walk(SelectSeq(dir.walk, LAMBDA e : e.ok), 1, <<>>)

\* Tracer::trace, the loop over config.source_dirs: the first error returns
RECURSIVE import_source_dirs(_, _, _)
import_source_dirs(source_dirs, k, imported) ==
    IF k > Len(source_dirs) THEN [ok |-> TRUE, value |-> imported]
    ELSE LET extend(tag_items) ==
                 IF ~tag_items.ok THEN tag_items
                 ELSE import_source_dirs(source_dirs, k + 1, imported \o tag_items.value)
         IN  extend(TagImporter_import_from_directory(source_dirs[k]))

\* Tracer::trace, the loop over config.spec_dirs
RECURSIVE import_spec_dirs(_, _, _)
import_spec_dirs(spec_dirs, k, imported) ==
    IF k > Len(spec_dirs) THEN [ok |-> TRUE, value |-> imported]
    ELSE LET extend(spec_items) ==
                 IF ~spec_items.ok THEN spec_items
                 ELSE import_spec_dirs(spec_dirs, k + 1, imported \o spec_items.value)
         IN  extend(MarkdownImporter_import_from_directory(spec_dirs[k]))

\* ------------------------------------------------------------------------
\* One run: the input, then the passes of link_items, then the analyzer
\* ------------------------------------------------------------------------
VARIABLES
    items,          \* the input of link_items: the merged item list
    pc,             \* the pass the run has completed
    items_by_id,    \* link_items' lookup map
    duplicate_ids,  \* link_items' duplicate list
    linked_items,   \* link_items' result under construction
    result,         \* "none", then what link_items returns
    trace_result,   \* what analyze_trace returns
    second,         \* a second run over the same input (SpecTwoRuns only)
    id_made,        \* SpecId: the identifier SpecificationItemId::new returned
    id_text,        \* SpecId: the text to_string returned, or the text given to parse
    id_parsed,      \* SpecId: what SpecificationItemId::parse returned
    tag_file,       \* SpecTagImport: the file given to TagImporter::import_from_file
    tag_result,     \* SpecTagImport: what import_from_file returned
    config,         \* SpecTrace: the tracer's source_dirs and spec_dirs, as found on disk
    trace_error,    \* SpecTrace: "none", then the error Tracer::trace returned
    md_file,        \* SpecMarkdown: the markdown file given to import_from_file
    md_result       \* SpecMarkdown: what import_from_file returned

vars == <<items, pc, items_by_id, duplicate_ids, linked_items, result, trace_result, second,
          id_made, id_text, id_parsed, tag_file, tag_result, config, trace_error,
          md_file, md_result>>

idVars == <<id_made, id_text, id_parsed>>

tagVars == <<tag_file, tag_result>>

traceVars == <<config, trace_error>>

mdVars == <<md_file, md_result>>

NotMade == [made |-> FALSE]

NotParsed == [returned |-> FALSE]

\* The variables of the identifier round trip, where it does not run
IdIdle == id_made = NotMade /\ id_text = <<>> /\ id_parsed = NotParsed

NoFile == [path |-> <<>>, readable |-> FALSE, lines |-> <<>>]

NotImported == [returned |-> FALSE]

\* The variables of the file import, where it does not run
TagIdle == tag_file = NoFile /\ tag_result = NotImported

NoConfig == [source_dirs |-> <<>>, spec_dirs |-> <<>>]

\* The variables of the import of Tracer::trace, where it does not run
TraceIdle == config = NoConfig /\ trace_error = "none"

\* The variables of the markdown import, where it does not run
MdIdle == md_file = NoFile /\ md_result = NotImported

NoResult == [items |-> <<>>, total_items |-> 0, defect_count |-> 0, defects |-> <<>>,
             coverage_summary |-> EmptyMap, is_success |-> FALSE]

NoRun == [items_by_id |-> EmptyMap, duplicate_ids |-> <<>>, linked_items |-> <<>>,
          result |-> "none", trace_result |-> NoResult, other_order |-> FALSE]

RECURSIVE Entries(_)
Entries(lists) == IF Len(lists) = 0 THEN 0 ELSE Len(lists[1]) + Entries(Tail(lists))

\* The needs lists of n items: at most MaxNeeds entries in all.
NeedsOf(n) ==
    {v \in [1..n -> SeqsUpTo(ArtifactTypes, MaxNeeds)] : Entries(v) <= MaxNeeds}

\* The covers lists of n items: items and covers entries together are at
\* most MaxSize.
CoversOf(n) ==
    {v \in [1..n -> SeqsUpTo(SpecificationItemId, MaxSize - n)] : Entries(v) <= MaxSize - n}

\* The explored inputs: at most MaxItems items in any order, duplicates of
\* an identifier included.
IsInput(its) ==
    \E n \in 0..MaxItems :
        \E covers \in CoversOf(n), needs \in NeedsOf(n), ids \in [1..n -> SpecificationItemId] :
            its = [k \in 1..n |-> [id |-> ids[k], needs |-> needs[k], covers |-> covers[k]]]

Init ==
    /\ IsInput(items)
    /\ pc = "start"
    /\ items_by_id = EmptyMap
    /\ duplicate_ids = <<>>
    /\ linked_items = <<>>
    /\ result = "none"
    /\ trace_result = NoResult
    /\ second = NoRun
    /\ IdIdle
    /\ TagIdle
    /\ TraceIdle
    /\ MdIdle

\* linker.rs 22-31
BuildLookupStep ==
    /\ pc = "start"
    /\ LET r == build_lookup(items, 1, EmptyMap, <<>>) IN
       /\ items_by_id' = r.items_by_id
       /\ duplicate_ids' = r.duplicate_ids
    /\ pc' = "indexed"
    /\ UNCHANGED <<items, linked_items, result, trace_result>>
    /\ UNCHANGED <<idVars, tagVars, traceVars, mdVars>>

\* linker.rs 33-45
CreateLinkedItemsStep ==
    /\ pc = "indexed"
    /\ linked_items' = create_linked_items(items, duplicate_ids)
    /\ pc' = "created"
    /\ UNCHANGED <<items, items_by_id, duplicate_ids, result, trace_result>>
    /\ UNCHANGED <<idVars, tagVars, traceVars, mdVars>>

\* linker.rs 60-67; keys is the order in which items_by_id iterates
ProcessOutgoingLinksStep(keys) ==
    /\ pc = "created"
    /\ linked_items' = process_outgoing_links(linked_items, items_by_id, keys)
    /\ pc' = "outgoing"
    /\ UNCHANGED <<items, items_by_id, duplicate_ids, result, trace_result>>
    /\ UNCHANGED <<idVars, tagVars, traceVars, mdVars>>

\* linker.rs 69-81
ProcessIncomingLinksStep ==
    /\ pc = "outgoing"
    /\ linked_items' = process_incoming_links(linked_items)
    /\ pc' = "incoming"
    /\ UNCHANGED <<items, items_by_id, duplicate_ids, result, trace_result>>
    /\ UNCHANGED <<idVars, tagVars, traceVars, mdVars>>

\* linker.rs 49-51, 136-191
AnalyzeCoverageStep ==
    /\ pc = "incoming"
    /\ linked_items' = analyze_coverage(linked_items)
    /\ result' = "Ok"
    /\ pc' = "linked"
    /\ UNCHANGED <<items, items_by_id, duplicate_ids, trace_result>>
    /\ UNCHANGED <<idVars, tagVars, traceVars, mdVars>>

\* tracer.rs 45-50, 64-129; group_order is the order in which artifact_groups iterates
AnalyzeTraceStep(group_order) ==
    /\ pc = "linked"
    /\ result = "Ok"
    /\ trace_result' = analyze_trace(linked_items, group_order)
    /\ pc' = "done"
    /\ UNCHANGED <<items, items_by_id, duplicate_ids, linked_items, result>>
    /\ UNCHANGED <<idVars, tagVars, traceVars, mdVars>>

BuildLookup == BuildLookupStep /\ UNCHANGED second

CreateLinkedItems == CreateLinkedItemsStep /\ UNCHANGED second

ProcessOutgoingLinks ==
    /\ \E keys \in IterationOrders(DOMAIN items_by_id) : ProcessOutgoingLinksStep(keys)
    /\ UNCHANGED second

ProcessIncomingLinks == ProcessIncomingLinksStep /\ UNCHANGED second

AnalyzeCoverage == AnalyzeCoverageStep /\ UNCHANGED second

AnalyzeTrace ==
    /\ \E group_order \in IterationOrders(DOMAIN artifact_groups(linked_items)) :
           AnalyzeTraceStep(group_order)
    /\ UNCHANGED second

Next ==
    \/ BuildLookup
    \/ CreateLinkedItems
    \/ ProcessOutgoingLinks
    \/ ProcessIncomingLinks
    \/ AnalyzeCoverage
    \/ AnalyzeTrace

Spec == Init /\ [][Next]_vars

\* ------------------------------------------------------------------------
\* Two runs over the same input, pass by pass.  Each run builds its own
\* maps, and each map iterates in an order of its own; other_order records
\* that the second run has iterated a map in another order than the first.
\* ------------------------------------------------------------------------
BothBuildLookup ==
    /\ BuildLookupStep
    /\ LET r == build_lookup(items, 1, EmptyMap, <<>>) IN
       second' = [second EXCEPT !.items_by_id = r.items_by_id,
                                !.duplicate_ids = r.duplicate_ids]

BothCreateLinkedItems ==
    /\ CreateLinkedItemsStep
    /\ second' = [second EXCEPT !.linked_items = create_linked_items(items, second.duplicate_ids)]

BothProcessOutgoingLinks ==
    \E keys \in IterationOrders(DOMAIN items_by_id),
       keys2 \in IterationOrders(DOMAIN second.items_by_id) :
        /\ ProcessOutgoingLinksStep(keys)
        /\ second' = [second EXCEPT
                         !.linked_items =
                             process_outgoing_links(second.linked_items, second.items_by_id, keys2),
                         !.other_order = @ \/ keys2 # keys]

BothProcessIncomingLinks ==
    /\ ProcessIncomingLinksStep
    /\ second' = [second EXCEPT !.linked_items = process_incoming_links(@)]

BothAnalyzeCoverage ==
    /\ AnalyzeCoverageStep
    /\ second' = [second EXCEPT !.linked_items = analyze_coverage(@), !.result = "Ok"]

BothAnalyzeTrace ==
    /\ second.result = "Ok"
    /\ \E group_order \in IterationOrders(DOMAIN artifact_groups(linked_items)),
          group_order2 \in IterationOrders(DOMAIN artifact_groups(second.linked_items)) :
           /\ AnalyzeTraceStep(group_order)
           /\ second' = [second EXCEPT
                            !.trace_result = analyze_trace(second.linked_items, group_order2),
                            !.other_order = @ \/ group_order2 # group_order]

NextTwoRuns ==
    \/ BothBuildLookup
    \/ BothCreateLinkedItems
    \/ BothProcessOutgoingLinks
    \/ BothProcessIncomingLinks
    \/ BothAnalyzeCoverage
    \/ BothAnalyzeTrace

SpecTwoRuns == Init /\ [][NextTwoRuns]_vars

\* ------------------------------------------------------------------------
\* SpecificationItemId: new, to_string, parse
\* ------------------------------------------------------------------------
\* The strings given to new: up to MaxIdLen characters, the separator among
\* them.
IdChars == {"a", "~"}

IdStrings == SeqsUpTo(IdChars, MaxIdLen)

\* The revisions given to new: 0, 1, 10, 2^31 and u32::MAX
IdRevisions == {u32(0), u32(1), u32(10), [hi |-> 32768, lo |-> 0], u32_MAX}

\* The segments of the texts given to parse: empty, a word, numerals with
\* and without sign, leading zero, blank or letter, and the numerals around
\* u32::MAX.
Segments ==
    {<<>>, <<"a">>, <<"0">>, <<"1">>, <<"+", "1">>, <<"-", "1">>, <<"+">>,
     <<"0", "1">>, <<"1", "a">>, <<" ", "1">>,
     <<"4", "2", "9", "4", "9", "6", "7", "2", "9", "5">>,
     <<"4", "2", "9", "4", "9", "6", "7", "2", "9", "6">>}

\* The linker's and the analyzer's variables, where they do not run
LinkerIdle ==
    /\ items = <<>>
    /\ items_by_id = EmptyMap
    /\ duplicate_ids = <<>>
    /\ linked_items = <<>>
    /\ result = "none"
    /\ trace_result = NoResult
    /\ second = NoRun

linkerVars == <<items, items_by_id, duplicate_ids, linked_items, result, trace_result, second>>

\* Either an identifier made by new, to be printed and parsed back, or a
\* text of up to MaxSegments segments, to be parsed.
InitId ==
    /\ LinkerIdle
    /\ TagIdle
    /\ TraceIdle
    /\ MdIdle
    /\ id_parsed = NotParsed
    /\ \/ /\ pc = "to_string"
          /\ \E t \in IdStrings, n \in IdStrings, r \in IdRevisions :
                 id_made = [made |-> TRUE, id |-> NewId(t, n, r)]
          /\ id_text = <<>>
       \/ /\ pc = "parse"
          /\ id_made = NotMade
          /\ \E k \in 1..MaxSegments : \E segments \in [1..k -> Segments] :
                 id_text = join(segments, "~")

\* id.to_string()
IdToString ==
    /\ pc = "to_string"
    /\ id_text' = Display(id_made.id)
    /\ pc' = "parse"
    /\ UNCHANGED <<id_made, id_parsed>>
    /\ UNCHANGED <<linkerVars, tagVars, traceVars, mdVars>>

\* SpecificationItemId::parse(text)
IdParse ==
    /\ pc = "parse"
    /\ id_parsed' = [returned |-> TRUE] @@ parse(id_text)
    /\ pc' = "parsed"
    /\ UNCHANGED <<id_made, id_text>>
    /\ UNCHANGED <<linkerVars, tagVars, traceVars, mdVars>>

NextId == IdToString \/ IdParse

SpecId == InitId /\ [][NextId]_vars

\* ------------------------------------------------------------------------
\* TagImporter::import_from_file over one file
\* ------------------------------------------------------------------------
TagPaths == {<<"src/", "a", ".rs">>, <<"src/", "b", ".rs">>}

CoveringTypes == {<<"impl">>, <<"utest">>}

\* The revision numerals of the explored tags: 1, 2, and 2^32
RevisionNumerals ==
    {<<"1">>, <<"2">>, <<"4", "2", "9", "4", "9", "6", "7", "2", "9", "6">>}

\* The captures of the full tags explored: [type -> req~x~revision] with
\* or without ~y~1 after the type and with or without >> utest, impl
FullTags ==
    {[kind |-> "full", artifact_type |-> t, name |-> n, revision |-> r,
      covered_artifact_type |-> <<"req">>, covered_name |-> <<"x">>,
      covered_revision |-> c, needs |-> w] :
        t \in {<<"impl">>}, c \in RevisionNumerals,
        n \in {<<>>}, r \in {<<>>},
        w \in {<<>>, << <<"utest", ",", " ", "impl", ",">> >>}}
    \cup
    {[kind |-> "full", artifact_type |-> t, name |-> << <<"y">> >>, revision |-> <<r>>,
      covered_artifact_type |-> <<"req">>, covered_name |-> <<"x">>,
      covered_revision |-> <<"1">>, needs |-> <<>>] :
        t \in {<<"impl">>}, r \in RevisionNumerals}

\* The captures of the short tags explored: [[req~x~revision : type]]
ShortTags ==
    {[kind |-> "short", artifact_type |-> t,
      covered_artifact_type |-> <<"req">>, covered_name |-> <<"x">>,
      covered_revision |-> c] :
        t \in CoveringTypes, c \in RevisionNumerals}

\* The matches on line k, of one kind, among the placed tags
MatchesOn(placed, k, kind) ==
    LET on_line == SelectSeq(placed, LAMBDA e : e[2] = k /\ e[1].kind = kind)
    IN  [m \in 1..Len(on_line) |-> on_line[m][1]]

\* A file of up to MaxLines lines with up to MaxTags tags in all
InitTagImport ==
    /\ LinkerIdle
    /\ IdIdle
    /\ TraceIdle
    /\ MdIdle
    /\ pc = "import_from_file"
    /\ tag_result = NotImported
    /\ \E path \in TagPaths, readable \in BOOLEAN, n \in 0..MaxLines :
           \E placed \in SeqsUpTo((FullTags \cup ShortTags) \X (1..n), MaxTags) :
               tag_file = [path |-> path, readable |-> readable,
                           lines |-> [k \in 1..n |->
                                         [full_tags |-> MatchesOn(placed, k, "full"),
                                          short_tags |-> MatchesOn(placed, k, "short")]]]

\* TagImporter::import_from_file(path)
ImportFromFile ==
    /\ pc = "import_from_file"
    /\ tag_result' = [returned |-> TRUE] @@ TagImporter_import_from_file(tag_file)
    /\ pc' = "imported"
    /\ UNCHANGED tag_file
    /\ UNCHANGED <<linkerVars, idVars, traceVars, mdVars>>

NextTagImport == ImportFromFile

SpecTagImport == InitTagImport /\ [][NextTagImport]_vars

\* ------------------------------------------------------------------------
\* Tracer::trace: the import from the configured directories, then the
\* passes of link_items and the analyzer
\* ------------------------------------------------------------------------
WalkError == [ok |-> FALSE]

FileEntry(path, readable, lines) ==
    [ok |-> TRUE, path |-> path, is_file |-> TRUE, readable |-> readable, lines |-> lines]

DirectoryEntry(path) ==
    [ok |-> TRUE, path |-> path, is_file |-> FALSE, readable |-> TRUE, lines |-> <<>>]

\* One line with the full tag [impl->req~x~revision]
TagLine(revision) ==
    [full_tags |-> <<[kind |-> "full", artifact_type |-> <<"impl">>, name |-> <<>>,
                      revision |-> <<>>, covered_artifact_type |-> <<"req">>,
                      covered_name |-> <<"x">>, covered_revision |-> revision,
                      needs |-> <<>>]>>,
     short_tags |-> <<>>]

\* What WalkDir can yield under a source directory: an error, a
\* subdirectory, the source files a.rs and b.rs with a tag, without a tag,
\* with a tag whose revision is 2^32, or unreadable, and a text file
SourceEntries ==
    {WalkError, DirectoryEntry(<<"src/", "sub">>)}
    \cup {FileEntry(<<"src/", "a", ".rs">>, TRUE, lines) :
              lines \in {<<>>, <<TagLine(<<"1">>)>>,
                         <<TagLine(<<"4", "2", "9", "4", "9", "6", "7", "2", "9", "6">>)>>}}
    \cup {FileEntry(<<"src/", "a", ".rs">>, FALSE, <<>>),
          FileEntry(<<"src/", "b", ".rs">>, TRUE, <<TagLine(<<"2">>)>>),
          FileEntry(<<"src/", "n", ".txt">>, FALSE, <<>>)}

\* Under a specification directory: an error, r.md declaring req~x~1 with
\* Needs: impl, empty, or unreadable, and a text file
SpecEntries ==
    {WalkError,
     FileEntry(<<"docs/", "r", ".md">>, TRUE,
               <<<<Backtick, "req", "~", "x", "~", "1", Backtick>>, <<"Needs:", " ", "impl">>>>),
     FileEntry(<<"docs/", "r", ".md">>, TRUE, <<>>),
     FileEntry(<<"docs/", "r", ".md">>, FALSE, <<>>),
     FileEntry(<<"docs/", "n", ".txt">>, FALSE, <<>>)}

\* No two entries of a walk have the same path
DistinctPaths(walk) ==
    \A i \in 1..Len(walk) : \A j \in 1..Len(walk) :
        (i # j /\ walk[i].ok /\ walk[j].ok) => walk[i].path # walk[j].path

InitTrace ==
    /\ LinkerIdle
    /\ IdIdle
    /\ TagIdle
    /\ MdIdle
    /\ pc = "trace"
    /\ trace_error = "none"
    /\ \E source_walks \in SeqsUpTo(SeqsUpTo(SourceEntries, MaxEntries), MaxDirs),
          spec_walks \in SeqsUpTo(SeqsUpTo(SpecEntries, MaxEntries), MaxDirs) :
           /\ \A k \in 1..Len(source_walks) : DistinctPaths(source_walks[k])
           /\ \A k \in 1..Len(spec_walks) : DistinctPaths(spec_walks[k])
           /\ \E source_exists \in [1..Len(source_walks) -> BOOLEAN],
                 spec_exists \in [1..Len(spec_walks) -> BOOLEAN] :
                  /\ \A k \in 1..Len(source_walks) :
                         source_exists[k] \/ source_walks[k] = <<>>
                  /\ \A k \in 1..Len(spec_walks) :
                         spec_exists[k] \/ spec_walks[k] = <<>>
                  /\ config =
                         [source_dirs |-> [k \in 1..Len(source_walks) |->
                                              [exists |-> source_exists[k],
                                               walk |-> source_walks[k]]],
                          spec_dirs |-> [k \in 1..Len(spec_walks) |->
                                            [exists |-> spec_exists[k],
                                             walk |-> spec_walks[k]]]]

\* tracer.rs 29-35: the import from the source directories
ImportSources ==
    /\ pc = "trace"
    /\ \E source_items \in {import_source_dirs(config.source_dirs, 1, <<>>)} :
       IF source_items.ok
       THEN /\ items' = items \o source_items.value
            /\ pc' = "sources"
            /\ UNCHANGED trace_error
       ELSE /\ trace_error' = source_items.error
            /\ pc' = "failed"
            /\ UNCHANGED items
    /\ UNCHANGED <<items_by_id, duplicate_ids, linked_items, result, trace_result, second>>
    /\ UNCHANGED <<idVars, tagVars, config, mdVars>>

\* tracer.rs 37-41: the import from the specification directories
ImportSpecs ==
    /\ pc = "sources"
    /\ \E spec_items \in {import_spec_dirs(config.spec_dirs, 1, <<>>)} :
       IF spec_items.ok
       THEN /\ items' = items \o spec_items.value
            /\ pc' = "start"
            /\ UNCHANGED trace_error
       ELSE /\ trace_error' = spec_items.error
            /\ items' = <<>>
            /\ pc' = "failed"
    /\ UNCHANGED <<items_by_id, duplicate_ids, linked_items, result, trace_result, second>>
    /\ UNCHANGED <<idVars, tagVars, config, mdVars>>

NextTrace ==
    \/ ImportSources
    \/ ImportSpecs
    \/ BuildLookup
    \/ CreateLinkedItems
    \/ ProcessOutgoingLinks
    \/ ProcessIncomingLinks
    \/ AnalyzeCoverage
    \/ AnalyzeTrace

SpecTrace == InitTrace /\ [][NextTrace]_vars

\* ------------------------------------------------------------------------
\* MarkdownImporter::import_from_file on one specification file
\* ------------------------------------------------------------------------
\* The revision 4294967296 = 2^32, one more than u32::MAX
Overflowing == <<"4", "2", "9", "4", "9", "6", "7", "2", "9", "6">>

\* The lines explored: blank, text, headings with and without an
\* identifier, identifiers in backticks, keyword lines and bullets
MdLines ==
    {<<>>,
     <<"text">>,
     <<"#", " ", "Auth">>,
     <<"#", "#", " ", "req", "~", "h", "~", "1">>,
     <<"#", "#", " ", "Auth", " ", "req", "~", "h", "~", "1", " ", "Login">>,
     <<"#", " ", "h", "~", "x", "~", "0", "1", " ", "Auth", "~", "x", "~", "1">>,
     <<Backtick, "req", "~", "x", "~", "1", Backtick>>,
     <<Backtick, "dsn", "~", "y", "~">> \o Overflowing \o <<Backtick>>,
     <<"Needs:", " ", "impl">>,
     <<"Covers:", " ", "req", "~", "x", "~", "2">>,
     <<"Covers:", " ", "req", "~", "x", "~">> \o Overflowing,
     <<"Covers:">>,
     <<"Depends:">>,
     <<"Tags:", " ", "a">>,
     <<"Status:", " ", "draft">>,
     <<"Rationale:">>,
     <<"Comment:">>,
     <<"-", " ", "req", "~", "y", "~", "1">>,
     <<"-", " ", "req", "~", "y", "~">> \o Overflowing,
     <<"-", " ", "note">>}

MdPath == <<"docs/", "r", ".md">>

\* A file of up to MaxMdLines lines; the lines of a file that cannot be
\* read are not seen
InitMarkdown ==
    /\ LinkerIdle
    /\ IdIdle
    /\ TagIdle
    /\ TraceIdle
    /\ pc = "import_markdown"
    /\ md_result = NotImported
    /\ \/ md_file = [path |-> MdPath, readable |-> FALSE, lines |-> <<>>]
       \/ \E lines \in SeqsUpTo(MdLines, MaxMdLines) :
              md_file = [path |-> MdPath, readable |-> TRUE, lines |-> lines]

\* MarkdownImporter::import_from_file(path)
ImportMarkdownFile ==
    /\ pc = "import_markdown"
    /\ md_result' = [returned |-> TRUE] @@ MarkdownImporter_import_from_file(md_file)
    /\ pc' = "imported_markdown"
    /\ UNCHANGED md_file
    /\ UNCHANGED <<linkerVars, idVars, tagVars, traceVars>>

NextMarkdown == ImportMarkdownFile

SpecMarkdown == InitMarkdown /\ [][NextMarkdown]_vars

\* ------------------------------------------------------------------------
\* Properties
\* ------------------------------------------------------------------------
Range(s) == {s[k] : k \in 1..Len(s)}

\* link_items has returned
Linked == pc \in {"linked", "done"}

Done == pc = "done"

InputIds == {items[k].id : k \in 1..Len(items)}

Occurrences(id) == Cardinality({k \in 1..Len(items) : items[k].id = id})

\* The outgoing link resolved for the l-th covers entry of item j: the
\* covers links are the last Len(covers) outgoing links.
CoversLink(j, l) ==
    linked_items[j].outgoing_links[Len(linked_items[j].outgoing_links)
                                   - Len(items[j].covers) + l]

\* Position of item i's defect in trace_result.defects
DefectIndex(i) == Cardinality({k \in 1..i : linked_items[k].is_defect})

\* Needed type T of item i is satisfied: an input item of type T lists i's
\* identifier in its covers and has a Covers link to it.
Satisfied(i, T) ==
    \E j \in 1..Len(items) :
        /\ items[j].id.artifact_type = T
        /\ items[i].id \in Range(items[j].covers)
        /\ \E lk \in Range(linked_items[j].outgoing_links) :
               lk.target_id = items[i].id /\ lk.status = "Covers"

\* C1: after link_items, an item with needs is Covered if all its needed
\* types are satisfied, Partial if some but not all are, Uncovered if none is.
C1_CoverageByNeeds ==
    Linked =>
        \A i \in 1..Len(items) :
            Len(items[i].needs) > 0 =>
                LET needed == Range(items[i].needs)
                    sat == {T \in needed : Satisfied(i, T)}
                IN  linked_items[i].coverage_status =
                        IF sat = needed THEN "Covered"
                        ELSE IF sat # {} THEN "Partial"
                        ELSE "Uncovered"

\* C1 witness: an item with two needed types, one of them satisfied.
C1_Witness ==
    /\ Linked
    /\ \E i \in 1..Len(items) :
           /\ \E T \in Range(items[i].needs) : Satisfied(i, T)
           /\ \E T \in Range(items[i].needs) : ~Satisfied(i, T)
           /\ linked_items[i].coverage_status = "Partial"

\* C2: an item with empty needs is Covered whatever links to it, and its
\* defect description, if it has one, has no "needs coverage by" clause.
C2_TerminatingCovered ==
    /\ Linked =>
           \A i \in 1..Len(items) :
               Len(items[i].needs) = 0 => linked_items[i].coverage_status = "Covered"
    /\ Done =>
           \A i \in 1..Len(items) :
               (Len(items[i].needs) = 0 /\ linked_items[i].is_defect) =>
                   ~Contains(trace_result.defects[DefectIndex(i)].description,
                             "needs coverage by ")

\* C2 witness: a defective item without needs that has an incoming link.
C2_Witness ==
    /\ Done
    /\ \E i \in 1..Len(items) :
           /\ Len(items[i].needs) = 0
           /\ Len(linked_items[i].incoming_links) > 0
           /\ linked_items[i].is_defect
           /\ trace_result.defects[DefectIndex(i)].item_id = items[i].id

\* The input items that carry the identifier
Carriers(id) == {t \in 1..Len(items) : items[t].id = id}

RevisionNumber(id) == id.revision.hi * 65536 + id.revision.lo

\* C4: a covers entry whose identifier is not in the input resolves by the
\* input identifiers sharing its type and name: none Orphaned, several
\* Ambiguous, one of a higher revision Outdated, one of a lower Predated.
C4_AbsentTarget ==
    Linked =>
        \A j \in 1..Len(items) : \A l \in 1..Len(items[j].covers) :
            LET c == items[j].covers[l]
                same == {id \in InputIds :
                            id.artifact_type = c.artifact_type /\ id.name = c.name}
            IN  c \notin InputIds =>
                    /\ same = {} => CoversLink(j, l).status = "Orphaned"
                    /\ Cardinality(same) > 1 => CoversLink(j, l).status = "Ambiguous"
                    /\ \A e \in same :
                           same = {e} =>
                               /\ RevisionNumber(e) > RevisionNumber(c)
                                      => CoversLink(j, l).status = "Outdated"
                               /\ RevisionNumber(e) < RevisionNumber(c)
                                      => CoversLink(j, l).status = "Predated"

\* C4 witness: one item references a lower and a higher revision of the only
\* existing revision of an item, giving an Outdated and a Predated link.
C4_Witness ==
    /\ Linked
    /\ \E j \in 1..Len(items) :
           /\ Len(items[j].covers) = 2
           /\ RevisionNumber(items[j].covers[1]) < RevisionNumber(items[j].covers[2])
           /\ CoversLink(j, 1).status = "Outdated"
           /\ CoversLink(j, 2).status = "Predated"

HasDuplicateLink(i) ==
    \E lk \in Range(linked_items[i].outgoing_links) :
        lk.status = "Duplicate" /\ lk.target_id = items[i].id

\* C5: after link_items every item whose identifier occurs more than once,
\* the first occurrence included, is a defect with a Duplicate link to its
\* own identifier; an item with a unique identifier has no Duplicate link.
C5_Duplicates ==
    Linked =>
        \A i \in 1..Len(items) :
            IF Occurrences(items[i].id) > 1
            THEN linked_items[i].is_defect /\ HasDuplicateLink(i)
            ELSE \A lk \in Range(linked_items[i].outgoing_links) : lk.status # "Duplicate"

\* C5 witness: the first two of three items share an identifier and are
\* flagged, the first included, although neither needs coverage nor covers
\* anything; the third, of another identifier, has no Duplicate link.
C5_Witness ==
    /\ Linked
    /\ Len(items) = 3
    /\ items[1].id = items[2].id
    /\ items[3].id # items[1].id
    /\ Len(items[1].needs) = 0
    /\ Len(items[1].covers) = 0
    /\ linked_items[1].is_defect
    /\ HasDuplicateLink(1)
    /\ HasDuplicateLink(2)
    /\ ~HasDuplicateLink(3)

\* C6: after link_items an item is a defect iff it is not Covered or has an
\* outgoing link that is Orphaned, Ambiguous, Outdated, Predated or
\* Duplicate; and no pass clears a defect flag once set.
C6_DefectFlag ==
    /\ [](Linked =>
            \A i \in 1..Len(items) :
                linked_items[i].is_defect <=>
                    \/ linked_items[i].coverage_status # "Covered"
                    \/ \E lk \in Range(linked_items[i].outgoing_links) :
                           lk.status \in {"Orphaned", "Ambiguous", "Outdated",
                                          "Predated", "Duplicate"})
    /\ [][\A i \in 1..Len(linked_items) :
              linked_items[i].is_defect => linked_items'[i].is_defect]_vars

\* C6 witness: an item flagged by the duplicate pass that the coverage pass
\* finds Covered, with no other broken link, is still a defect.
C6_Witness ==
    /\ Linked
    /\ \E i \in 1..Len(items) :
           /\ Occurrences(items[i].id) > 1
           /\ linked_items[i].coverage_status = "Covered"
           /\ \A lk \in Range(linked_items[i].outgoing_links) :
                  lk.status \in {"Duplicate", "Covers", "Unwanted"}
           /\ linked_items[i].is_defect

\* C7: link_items returns Ok with one linked item per input item, in input
\* order, each wrapping the unchanged input item.
C7_NeverFails ==
    Linked =>
        /\ result = "Ok"
        /\ Len(linked_items) = Len(items)
        /\ \A i \in 1..Len(items) : linked_items[i].item = items[i]

\* C7 witness: an input with a duplicated identifier and an orphaned
\* reference has been linked.
C7_Witness ==
    /\ Linked
    /\ result = "Ok"
    /\ Len(linked_items) = 2
    /\ items[1].id = items[2].id
    /\ \E i \in 1..2 : \E lk \in Range(linked_items[i].outgoing_links) : lk.status = "Orphaned"
    /\ \E i \in 1..2 : linked_items[i].coverage_status = "Uncovered"

\* C8 as claimed: every linked item has exactly one outgoing link per covers
\* entry, the i-th link targeting the i-th covers entry from its own identifier.
C8_Original ==
    Linked =>
        \A i \in 1..Len(items) :
            /\ Len(linked_items[i].outgoing_links) = Len(items[i].covers)
            /\ \A l \in 1..Len(items[i].covers) :
                   /\ linked_items[i].outgoing_links[l].target_id = items[i].covers[l]
                   /\ linked_items[i].outgoing_links[l].source_id = items[i].id

\* C8 amended: the outgoing links of a linked item are one link per covers
\* entry, in covers order and from its own identifier, preceded by one
\* Duplicate link to its own identifier exactly when its identifier occurs
\* more than once in the input.
C8_LinkPerCoversEntry ==
    Linked =>
        \A i \in 1..Len(items) :
            LET d == IF Occurrences(items[i].id) > 1 THEN 1 ELSE 0
                out == linked_items[i].outgoing_links
            IN  /\ Len(out) = d + Len(items[i].covers)
                /\ d = 1 => out[1] = Link(items[i].id, items[i].id, "Duplicate")
                /\ \A l \in 1..Len(items[i].covers) :
                       /\ out[d + l].target_id = items[i].covers[l]
                       /\ out[d + l].source_id = items[i].id
                       /\ out[d + l].status # "Duplicate"

\* C8 witness: an item with a duplicated identifier and two covers entries
\* has three outgoing links.
C8_Witness ==
    /\ Linked
    /\ \E i \in 1..Len(items) :
           /\ Occurrences(items[i].id) > 1
           /\ Len(items[i].covers) = 2
           /\ Len(linked_items[i].outgoing_links) = 3

\* C9: the incoming links of item A are one CoveredShallow link per input
\* item whose covers contain A's identifier, in input order, and no other.
C9_IncomingLinks ==
    Linked =>
        \A a \in 1..Len(items) :
            LET sources == SelectSeq(items, LAMBDA b : items[a].id \in Range(b.covers))
                inc == linked_items[a].incoming_links
            IN  /\ Len(inc) = Len(sources)
                /\ \A k \in 1..Len(sources) :
                       inc[k] = Link(sources[k].id, items[a].id, "CoveredShallow")

\* C9 witness: an item without needs covered by itself and by a later item of
\* another identifier has two incoming links although both outgoing links
\* are Unwanted.
C9_Witness ==
    /\ Linked
    /\ Len(items) = 2
    /\ items[1].id # items[2].id
    /\ Len(linked_items[1].incoming_links) = 2
    /\ linked_items[1].incoming_links[1].source_id = items[1].id
    /\ linked_items[1].incoming_links[2].source_id = items[2].id
    /\ \A i \in 1..2 : \A lk \in Range(linked_items[i].outgoing_links) : lk.status = "Unwanted"

\* C10: two runs over the same item list give the same links, statuses,
\* defect flags, defects, descriptions and coverage summary, whatever the
\* order in which each run's hash maps iterate.
C10_Deterministic ==
    /\ Linked => second.linked_items = linked_items /\ second.result = result
    /\ Done => second.trace_result = trace_result

\* C10 witness: both runs are done, the second iterated a map in another
\* order than the first, and the input has an Ambiguous reference, decided
\* from several keys of the map, and items of two artifact types.
C10_Witness ==
    /\ Done
    /\ second.other_order
    /\ \E i \in 1..Len(items) : \E lk \in Range(linked_items[i].outgoing_links) :
           lk.status = "Ambiguous"
    /\ Cardinality(DOMAIN trace_result.coverage_summary) = 2
    /\ trace_result.defect_count > 0

\* Item j is of a type item i needs and lists i's exact identifier in covers
CoversNeedOf(j, i) ==
    /\ items[j].id.artifact_type \in Range(items[i].needs)
    /\ items[i].id \in Range(items[j].covers)

\* Item i has a unique identifier, declares needs, and every needed type has
\* an item of that type listing i's identifier in its covers
FullyCoveredInput(i) ==
    /\ Occurrences(items[i].id) = 1
    /\ Len(items[i].needs) > 0
    /\ \A T \in Range(items[i].needs) :
           \E j \in 1..Len(items) : items[j].id.artifact_type = T /\ CoversNeedOf(j, i)

\* C11: an item with a unique identifier and needs, each needed type having
\* an item of that type that lists its identifier in covers, is Covered after
\* link_items and, if none of its own outgoing links is broken, not a defect;
\* every such covering item has an outgoing link to it, all of them Covers,
\* and a covering item without needs is Covered itself.
C11_SimpleLinking ==
    Linked =>
        \A i \in 1..Len(items) :
            FullyCoveredInput(i) =>
                /\ linked_items[i].coverage_status = "Covered"
                /\ (\A lk \in Range(linked_items[i].outgoing_links) :
                        lk.status \in {"Covers", "Unwanted"})
                       => ~linked_items[i].is_defect
                /\ \A j \in 1..Len(items) :
                       CoversNeedOf(j, i) =>
                           /\ \E lk \in Range(linked_items[j].outgoing_links) :
                                  lk.target_id = items[i].id
                           /\ \A lk \in Range(linked_items[j].outgoing_links) :
                                  lk.target_id = items[i].id => lk.status = "Covers"
                           /\ Len(items[j].needs) = 0 =>
                                  linked_items[j].coverage_status = "Covered"

\* C11 witness: the first item needs one type, the second is of that type,
\* declares no needs and covers the first; both are Covered, neither is a
\* defect, and the second has its one link, a Covers link.
C11_Witness ==
    /\ Linked
    /\ Len(items) = 2
    /\ FullyCoveredInput(1)
    /\ CoversNeedOf(2, 1)
    /\ Len(items[2].needs) = 0
    /\ linked_items[1].coverage_status = "Covered"
    /\ ~linked_items[1].is_defect
    /\ linked_items[2].outgoing_links = <<Link(items[2].id, items[1].id, "Covers")>>
    /\ linked_items[2].coverage_status = "Covered"
    /\ ~linked_items[2].is_defect

\* t occurs in s as a contiguous run of pieces
HasInfix(s, t) ==
    \E k \in 0..(Len(s) - Len(t)) : \A m \in 1..Len(t) : s[k + m] = t[m]

\* No input item lists item i's identifier in its covers
NothingCovers(i) == \A j \in 1..Len(items) : items[i].id \notin Range(items[j].covers)

\* "needs coverage by " followed by the needed types of item i
NeedsClause(i) ==
    <<"needs coverage by ">> \o join(items[i].needs, ", ")

\* C12: an item that declares needs and whose identifier is in no covers list
\* is Uncovered and a defect, the trace result is not successful, and its
\* defect description contains "needs coverage by " followed by its needed
\* types.
C12_UncoveredNeeds ==
    /\ Linked =>
           \A i \in 1..Len(items) :
               (Len(items[i].needs) > 0 /\ NothingCovers(i)) =>
                   /\ linked_items[i].coverage_status = "Uncovered"
                   /\ linked_items[i].is_defect
    /\ Done =>
           \A i \in 1..Len(items) :
               (Len(items[i].needs) > 0 /\ NothingCovers(i)) =>
                   /\ ~trace_result.is_success
                   /\ HasInfix(trace_result.defects[DefectIndex(i)].description,
                               NeedsClause(i))

\* C12 witness: req~x~1 needs impl and nothing covers it; its description
\* is "Item req~x~1 needs coverage by impl".
C12_Witness ==
    /\ Done
    /\ Len(items) = 1
    /\ items[1].id = NewId(<<"req">>, <<"x">>, u32(1))
    /\ items[1].needs = << <<"impl">> >>
    /\ linked_items[1].coverage_status = "Uncovered"
    /\ ~trace_result.is_success
    /\ trace_result.defects[1].description =
           <<"Item ", "req", "~", "x", "~", "1", " ", "needs coverage by ", "impl">>

\* C13: total_items is the number of linked items; the defect list holds one
\* Defect per item whose is_defect is set, in item order and with that item's
\* identifier; defect_count is the length of the defect list and so at most
\* total_items; is_success holds iff defect_count is 0.
C13_ResultConsistent ==
    Done =>
        LET defective == {i \in 1..Len(linked_items) : linked_items[i].is_defect} IN
        /\ trace_result.total_items = Len(linked_items)
        /\ trace_result.items = linked_items
        /\ Len(trace_result.defects) = Cardinality(defective)
        /\ \A i \in defective :
               trace_result.defects[DefectIndex(i)].item_id = items[i].id
        /\ trace_result.defect_count = Len(trace_result.defects)
        /\ trace_result.defect_count <= trace_result.total_items
        /\ trace_result.is_success <=> trace_result.defect_count = 0

\* C13 witness: of three items with different identifiers the first and the
\* third are defects and the second is not; the defect list names the first,
\* then the third.
C13_Witness ==
    /\ Done
    /\ Len(items) = 3
    /\ linked_items[1].is_defect
    /\ ~linked_items[2].is_defect
    /\ linked_items[3].is_defect
    /\ items[1].id # items[3].id
    /\ trace_result.defect_count = 2
    /\ trace_result.defects[1].item_id = items[1].id
    /\ trace_result.defects[2].item_id = items[3].id
    /\ ~trace_result.is_success

LinkedTypes == {linked_items[k].item.id.artifact_type : k \in 1..Len(linked_items)}

OfType(T) == {k \in 1..Len(linked_items) : linked_items[k].item.id.artifact_type = T}

CoveredOfType(T) == {k \in OfType(T) : linked_items[k].coverage_status = "Covered"}

RECURSIVE SumOfTotals(_, _)
SumOfTotals(summary, types) ==
    IF types = {} THEN 0
    ELSE LET T == CHOOSE t \in types : TRUE
         IN  summary[T].total + SumOfTotals(summary, types \ {T})

\* C14: the coverage summary has one entry per artifact type of the linked
\* items; total counts the items of the type, covered those of them that are
\* Covered, whether defects or not; the status is Covered if covered = total,
\* Partial if 0 < covered < total, Uncovered if covered = 0; and the totals
\* add up to total_items.
C14_CoverageSummary ==
    Done =>
        LET summary == trace_result.coverage_summary IN
        /\ DOMAIN summary = LinkedTypes
        /\ \A T \in LinkedTypes :
               /\ summary[T].total = Cardinality(OfType(T))
               /\ summary[T].covered = Cardinality(CoveredOfType(T))
               /\ summary[T].covered = summary[T].total => summary[T].status = "Covered"
               /\ (0 < summary[T].covered /\ summary[T].covered < summary[T].total)
                      => summary[T].status = "Partial"
               /\ summary[T].covered = 0 => summary[T].status = "Uncovered"
        /\ SumOfTotals(summary, DOMAIN summary) = trace_result.total_items

\* C14 witness: two artifact types; one of them has two items, one Uncovered
\* and one Covered that is a defect all the same, and is Partial with one
\* covered of two.
C14_Witness ==
    /\ Done
    /\ Cardinality(DOMAIN trace_result.coverage_summary) = 2
    /\ \E T \in LinkedTypes :
           /\ trace_result.coverage_summary[T].total = 2
           /\ trace_result.coverage_summary[T].covered = 1
           /\ trace_result.coverage_summary[T].status = "Partial"
           /\ \E k \in CoveredOfType(T) : linked_items[k].is_defect

\* The f64 nearest to n * 100 / d, for d > 0
PercentOf(n, d) == f64_div(n * 100, d)

\* The f64 after x
NextF64(x) == round_to_f64(increment(x.significand), x.exponent, FALSE)

\* Two f64 that are equal or neighbours
WithinOneUlp(x, y) ==
    \/ x = y
    \/ x # F64Zero /\ NextF64(x) = y
    \/ y # F64Zero /\ NextF64(y) = x

\* C15: the overall coverage percentage is (total_items - defect_count) * 100
\* / total_items, and 100 for no items: it follows the defect count; the
\* percentage of a type is covered * 100 / total over the items of the type
\* that are Covered: it follows the coverage statuses.  Each is the f64
\* nearest to the quotient or, the code rounding twice, its neighbour.
C15_Percentages ==
    Done =>
        /\ IF Len(items) = 0 THEN coverage_percentage(trace_result) = as_f64(100)
           ELSE WithinOneUlp(coverage_percentage(trace_result),
                    PercentOf(Len(items)
                                - Cardinality({i \in 1..Len(items) : linked_items[i].is_defect}),
                              Len(items)))
        /\ \A T \in LinkedTypes :
               WithinOneUlp(trace_result.coverage_summary[T].percentage,
                   PercentOf(Cardinality(CoveredOfType(T)), Cardinality(OfType(T))))

\* C15 witness: all items are of one type and all are Covered, so the type's
\* percentage is 100, but one has a broken outgoing link and the overall
\* percentage is 50.
C15_Witness ==
    /\ Done
    /\ Len(items) = 2
    /\ \E T \in LinkedTypes :
           /\ LinkedTypes = {T}
           /\ trace_result.coverage_summary[T].percentage = as_f64(100)
    /\ \E i \in 1..2 :
           /\ linked_items[i].coverage_status = "Covered"
           /\ \E lk \in Range(linked_items[i].outgoing_links) : lk.status = "Orphaned"
    /\ coverage_percentage(trace_result) = as_f64(50)

\* The positions of the separator in the text given to parse
Tildes == {k \in 1..Len(id_text) : id_text[k] = "~"}

FirstTilde == CHOOSE k \in Tildes : \A m \in Tildes : k <= m

LastTilde == CHOOSE k \in Tildes : \A m \in Tildes : m <= k

IsDigit(c) == c \in {"0", "1", "2", "3", "4", "5", "6", "7", "8", "9"}

\* s without its leading zeros
RECURSIVE Significant(_)
Significant(s) == IF Len(s) > 0 /\ s[1] = "0" THEN Significant(Tail(s)) ELSE s

\* s without a leading plus sign
Unsigned(s) == IF Len(s) > 0 /\ s[1] = "+" THEN Tail(s) ELSE s

\* The numeral a is at most the numeral b of the same length
RECURSIVE NumeralLeq(_, _)
NumeralLeq(a, b) ==
    \/ Len(a) = 0
    \/ to_digit(a[1]) < to_digit(b[1])
    \/ a[1] = b[1] /\ NumeralLeq(Tail(a), Tail(b))

\* s is the numeral of a non-negative integer within u32
IsRevisionNumeral(s) ==
    /\ Len(Unsigned(s)) > 0
    /\ \A k \in 1..Len(Unsigned(s)) : IsDigit(Unsigned(s)[k])
    /\ \/ Len(Significant(Unsigned(s))) < 10
       \/ /\ Len(Significant(Unsigned(s))) = 10
          /\ NumeralLeq(Significant(Unsigned(s)),
                        <<"4", "2", "9", "4", "9", "6", "7", "2", "9", "5">>)

\* C16 as claimed: for every identifier made by new, parse(id.to_string())
\* returns an identifier equal to it.
C16_RoundTrip ==
    (pc = "parsed" /\ id_made.made) =>
        id_parsed.ok /\ id_parsed.value = id_made.id

\* C17: parse succeeds exactly when the text has two separators and the
\* segment after the second is the numeral of a non-negative integer within
\* u32, and then returns the first segment, the second segment and that
\* integer; in every other case it returns InvalidId and no identifier.
C17_ParseExactly ==
    pc = "parsed" =>
        IF Cardinality(Tildes) = 2
           /\ IsRevisionNumeral(SubSeq(id_text, LastTilde + 1, Len(id_text)))
        THEN /\ id_parsed.ok
             /\ id_parsed.value.artifact_type = SubSeq(id_text, 1, FirstTilde - 1)
             /\ id_parsed.value.name = SubSeq(id_text, FirstTilde + 1, LastTilde - 1)
             /\ u32_to_string(id_parsed.value.revision) =
                    LET digits == Significant(Unsigned(SubSeq(id_text, LastTilde + 1, Len(id_text))))
                    IN  IF Len(digits) = 0 THEN <<"0">> ELSE digits
        ELSE /\ ~id_parsed.ok
             /\ id_parsed.error = "InvalidId"
             /\ "value" \notin DOMAIN id_parsed

\* C17 witness: a text of three segments whose third is the numeral of
\* 2^32, one above u32::MAX, has been refused.
C17_Witness ==
    /\ pc = "parsed"
    /\ id_text = <<"a", "~", "a", "~", "4", "2", "9", "4", "9", "6", "7", "2", "9", "6">>
    /\ ~id_parsed.ok
    /\ id_parsed.error = "InvalidId"

\* The tag matches of the imported file in scan order: line by line, on
\* every line the full tags before the short tags
RECURSIVE MatchesFrom(_)
MatchesFrom(k) ==
    IF k > Len(tag_file.lines) THEN <<>>
    ELSE [m \in 1..Len(tag_file.lines[k].full_tags) |->
             [line |-> k, tag |-> tag_file.lines[k].full_tags[m]]]
         \o [m \in 1..Len(tag_file.lines[k].short_tags) |->
                [line |-> k, tag |-> tag_file.lines[k].short_tags[m]]]
         \o MatchesFrom(k + 1)

TagMatches == MatchesFrom(1)

\* The tag gives the covering item's name~revision
Named(tag) == tag.kind = "full" /\ Len(tag.name) = 1

\* The item is the one the claim describes for the match e
IsItemOf(item, e) ==
    /\ Len(item.covers) = 1
    /\ item.covers[1].artifact_type = e.tag.covered_artifact_type
    /\ item.covers[1].name = e.tag.covered_name
    /\ u32_to_string(item.covers[1].revision) = e.tag.covered_revision
    /\ item.location.path = tag_file.path
    /\ item.location.line.hi = 0
    /\ item.location.line.lo = e.line
    /\ item.id.artifact_type = e.tag.artifact_type
    /\ IF Named(e.tag)
       THEN /\ item.id.name = e.tag.name[1]
            /\ u32_to_string(item.id.revision) = e.tag.revision[1]
       ELSE /\ item.id.revision = u32(0)
            /\ item.id.name = e.tag.covered_name \o <<"-">>
                              \o generate_hash(tag_file.path \o <<":", Digits[e.line + 1]>>)

\* Every revision numeral of the file's tag matches is within u32
AllRevisionsFit ==
    \A m \in 1..Len(TagMatches) :
        /\ IsRevisionNumeral(TagMatches[m].tag.covered_revision)
        /\ Named(TagMatches[m].tag) => IsRevisionNumeral(TagMatches[m].tag.revision[1])

\* C18 as claimed: every tag match on a line of a file that is read yields
\* one item, with covers exactly the referenced identifier, the location of
\* the line, the covering type, and the identifier type~name~revision if
\* the tag gives name~revision, else revision 0 and the name <target
\* name>-<hash of path:line>.
C18_Original ==
    (pc = "imported" /\ tag_file.readable) =>
        /\ tag_result.ok
        /\ Len(tag_result.value) = Len(TagMatches)
        /\ \A m \in 1..Len(TagMatches) : IsItemOf(tag_result.value[m], TagMatches[m])

\* C18 amended: if every revision numeral of the file's tag matches is
\* within u32, every tag match yields one item as described; if one is not,
\* import_from_file returns a Parse error and no item.
C18_TagItems ==
    (pc = "imported" /\ tag_file.readable) =>
        IF AllRevisionsFit
        THEN /\ tag_result.ok
             /\ Len(tag_result.value) = Len(TagMatches)
             /\ \A m \in 1..Len(TagMatches) : IsItemOf(tag_result.value[m], TagMatches[m])
        ELSE /\ ~tag_result.ok
             /\ tag_result.error = "Parse"
             /\ "value" \notin DOMAIN tag_result

\* C18 witness: line 2 of src/a.rs holds a full tag without name~revision
\* and a short tag; the import returned two items located at line 2, the
\* first named x-<hash of src/a.rs:2> with revision 0.
C18_Witness ==
    /\ pc = "imported"
    /\ tag_file.path = <<"src/", "a", ".rs">>
    /\ Len(tag_file.lines) = 2
    /\ Len(tag_file.lines[2].full_tags) = 1
    /\ Len(tag_file.lines[2].short_tags) = 1
    /\ tag_result.ok
    /\ Len(tag_result.value) = 2
    /\ tag_result.value[1].id.name = <<"x", "-", "hash(", "src/", "a", ".rs", ":", "2", ")">>
    /\ tag_result.value[1].id.revision = u32(0)
    /\ tag_result.value[1].location = [path |-> <<"src/", "a", ".rs">>, line |-> u32(2)]
    /\ tag_result.value[2].location = [path |-> <<"src/", "a", ".rs">>, line |-> u32(2)]

\* C19 as claimed: two items the import synthesized an identifier for have
\* the same identifier only if they come from the same tag at the same line
\* of the file.
C19_SyntheticIdsUnique ==
    (pc = "imported" /\ tag_result.ok) =>
        \A k \in 1..Len(TagMatches) : \A m \in 1..Len(TagMatches) :
            (/\ k # m
             /\ ~Named(TagMatches[k].tag)
             /\ ~Named(TagMatches[m].tag)
             /\ tag_result.value[k].id = tag_result.value[m].id)
            => /\ TagMatches[k].tag = TagMatches[m].tag
               /\ TagMatches[k].line = TagMatches[m].line

\* Tracer::trace has returned
Returned == pc \in {"failed", "done"}

\* Under the directory an entry cannot be traversed, or a file the importer
\* selects cannot be read
HasIoFailure(dir, selects(_)) ==
    /\ dir.exists
    /\ \E k \in 1..Len(dir.walk) :
           \/ ~dir.walk[k].ok
           \/ /\ dir.walk[k].is_file
              /\ selects(dir.walk[k].path)
              /\ ~dir.walk[k].readable

IoFailureInScan ==
    \/ \E k \in 1..Len(config.source_dirs) :
           HasIoFailure(config.source_dirs[k], should_scan_file)
    \/ \E k \in 1..Len(config.spec_dirs) :
           HasIoFailure(config.spec_dirs[k], is_markdown_file)

\* C20 as claimed: if under a scanned directory a selected file cannot be
\* read or an entry cannot be traversed, the import returns an error and no
\* items, and Tracer::trace returns an error, links nothing and produces no
\* trace result.
C20_NoSilentSkip ==
    (Returned /\ IoFailureInScan) =>
        /\ pc = "failed"
        /\ trace_error # "none"
        /\ items = <<>>
        /\ linked_items = <<>>
        /\ result = "none"
        /\ trace_result = NoResult

AllMissing(dirs) == \A k \in 1..Len(dirs) : ~dirs[k].exists

\* C22: a scan root that does not exist is not a failure.  Either importer
\* returns Ok with no items for it; Tracer::trace goes on with the other
\* roots (after missing source roots it has no items and no error, and only
\* an existing root can make it fail); when every configured root is
\* missing the trace succeeds with total_items = 0, defect_count = 0 and
\* is_success.
C22_MissingRoot ==
    /\ \A k \in 1..Len(config.source_dirs) :
           ~config.source_dirs[k].exists =>
               TagImporter_import_from_directory(config.source_dirs[k])
                   = [ok |-> TRUE, value |-> <<>>]
    /\ \A k \in 1..Len(config.spec_dirs) :
           ~config.spec_dirs[k].exists =>
               MarkdownImporter_import_from_directory(config.spec_dirs[k])
                   = [ok |-> TRUE, value |-> <<>>]
    /\ (AllMissing(config.source_dirs) /\ pc = "sources") =>
           (items = <<>> /\ trace_error = "none")
    /\ (AllMissing(config.source_dirs) /\ pc = "failed") =>
           ~AllMissing(config.spec_dirs)
    /\ (AllMissing(config.source_dirs) /\ pc = "start") =>
           items = import_spec_dirs(config.spec_dirs, 1, <<>>).value
    /\ (AllMissing(config.spec_dirs) /\ pc = "start") =>
           items = import_source_dirs(config.source_dirs, 1, <<>>).value
    /\ (AllMissing(config.source_dirs) /\ AllMissing(config.spec_dirs)) =>
           /\ pc # "failed"
           /\ pc = "done" =>
                  /\ trace_result.total_items = 0
                  /\ trace_result.defect_count = 0
                  /\ trace_result.is_success

\* Both a source root and a specification root are configured, both are
\* missing, and the trace has succeeded with nothing in it
C22_Witness ==
    /\ pc = "done"
    /\ Len(config.source_dirs) = 1
    /\ Len(config.spec_dirs) = 1
    /\ AllMissing(config.source_dirs)
    /\ AllMissing(config.spec_dirs)
    /\ trace_error = "none"
    /\ trace_result.total_items = 0
    /\ trace_result.is_success

\* The description of the defect of item i
Description(i) == trace_result.defects[DefectIndex(i)].description

\* The needed types of item i that are not satisfied, in declared order
Unsatisfied(i) == SelectSeq(items[i].needs, LAMBDA T : ~Satisfied(i, T))

Positions(s, piece) == {k \in 1..Len(s) : s[k] = piece}

\* C23 as claimed: the description of a defective item that is not Covered
\* has exactly one "needs coverage by " clause, and the clause lists, in
\* declared order, exactly the needed types that no item of that type covers
\* with a Covers link.
C23_ClauseListsUnsatisfied ==
    Done =>
        \A i \in 1..Len(items) :
            (linked_items[i].is_defect /\ linked_items[i].coverage_status # "Covered") =>
                LET at == Positions(Description(i), "needs coverage by ") IN
                /\ Cardinality(at) = 1
                /\ \A k \in at :
                       SubSeq(Description(i), k + 1, Len(Description(i)))
                           = join(Unsatisfied(i), ", ")

\* The messages of the outgoing links of item i whose status is in statuses,
\* in link order
MessagesOf(i, statuses) ==
    LET offending == SelectSeq(linked_items[i].outgoing_links,
                               LAMBDA lk : lk.status \in statuses)
    IN  [k \in 1..Len(offending) |->
            CASE offending[k].status = "Orphaned" ->
                     <<"covers non-existing item ">> \o Display(offending[k].target_id)
              [] offending[k].status = "Duplicate" ->
                     <<"has duplicate ID ">> \o Display(items[i].id)
              [] offending[k].status = "Outdated" ->
                     <<"covers outdated revision of ">> \o Display(offending[k].target_id)
              [] offending[k].status = "Predated" ->
                     <<"covers newer revision of ">> \o Display(offending[k].target_id)
              [] offending[k].status = "Ambiguous" ->
                     <<"has ambiguous reference to ">> \o Display(offending[k].target_id)]

\* The issues of item i grouped: orphaned, duplicate, revision, coverage
GroupedIssues(i) ==
    MessagesOf(i, {"Orphaned"})
    \o MessagesOf(i, {"Duplicate"})
    \o MessagesOf(i, {"Outdated", "Predated", "Ambiguous"})
    \o missing_coverage_issues(linked_items[i])

\* C24 as claimed: the description of a defective item with issues gives
\* the orphaned-reference messages, then the duplicate-id messages, then the
\* outdated, predated and ambiguous messages in link order, then the
\* needs-coverage clause; one issue as "Item <id> <issue>", several as
\* "Item <id> has multiple issues: " and the issues joined with "; ".
C24_IssuesGrouped ==
    Done =>
        \A i \in 1..Len(items) :
            (linked_items[i].is_defect /\ Len(GroupedIssues(i)) > 0) =>
                Description(i) =
                    IF Len(GroupedIssues(i)) = 1
                    THEN <<"Item ">> \o Display(items[i].id) \o <<" ">> \o GroupedIssues(i)[1]
                    ELSE <<"Item ">> \o Display(items[i].id) \o <<" has multiple issues: ">>
                         \o join(GroupedIssues(i), "; ")

IssuePrefixes ==
    {"covers non-existing item ", "has duplicate ID ", "covers outdated revision of ",
     "covers newer revision of ", "has ambiguous reference to ", "needs coverage by "}

\* C30: the description of every item link_items flags as a defect names an
\* issue; the fallback " has unspecified defects" is not produced.
C30_NoUnspecifiedDefects ==
    Done =>
        \A i \in 1..Len(items) :
            linked_items[i].is_defect =>
                /\ Positions(Description(i), " has unspecified defects") = {}
                /\ \E k \in 1..Len(Description(i)) : Description(i)[k] \in IssuePrefixes

\* C30 witness: an item that is a defect only because it is not Covered,
\* with no outgoing link, while another flagged item is Covered and has only
\* a Duplicate link; both descriptions name their issue.
C30_Witness ==
    /\ Done
    /\ \E i \in 1..Len(items) :
           /\ linked_items[i].is_defect
           /\ linked_items[i].coverage_status = "Uncovered"
           /\ linked_items[i].outgoing_links = <<>>
           /\ Positions(Description(i), "needs coverage by ") # {}
    /\ \E i \in 1..Len(items) :
           /\ linked_items[i].is_defect
           /\ linked_items[i].coverage_status = "Covered"
           /\ Len(linked_items[i].outgoing_links) = 1
           /\ linked_items[i].outgoing_links[1].status = "Duplicate"
           /\ Description(i) = <<"Item ">> \o Display(items[i].id) \o <<" ">>
                                \o <<"has duplicate ID ">> \o Display(items[i].id)

\* The statuses of the outgoing links of a linked item, in link order
OutgoingStatuses(li) == [k \in 1..Len(li.outgoing_links) |-> li.outgoing_links[k].status]

\* C29 as claimed: link_items over any permutation of the input gives every
\* item the same outgoing link statuses, the same set of incoming links, the
\* same coverage status and the same defect flag as over the input itself.
C29_OrderIndependent ==
    Linked =>
        \A p \in Permutations(1..Len(items)) :
            \A keys \in IterationOrders(InputIds) :
                LET permuted == link_items([k \in 1..Len(items) |-> items[p[k]]], keys) IN
                \A k \in 1..Len(items) :
                    /\ permuted[k].item = items[p[k]]
                    /\ OutgoingStatuses(permuted[k]) = OutgoingStatuses(linked_items[p[k]])
                    /\ Range(permuted[k].incoming_links)
                           = Range(linked_items[p[k]].incoming_links)
                    /\ permuted[k].coverage_status = linked_items[p[k]].coverage_status
                    /\ permuted[k].is_defect = linked_items[p[k]].is_defect

\* ------------------------------------------------------------------------
\* Properties of the Markdown importer (SpecMarkdown)
\* ------------------------------------------------------------------------
\* import_from_file has returned for a file that could be read
Parsed == md_result.returned /\ md_file.readable

\* Line k comes after a declaration line
InItem(lines, k) == \E d \in 1..(k - 1) : Len(declaration(lines[d])) # 0

\* The captures hold a revision that does not fit u32
Malformed(captures) == Len(captures) # 0 /\ ~parse_u32(captures[1].revision).ok

\* Line k holds a matched identifier with a malformed revision: a
\* declaration, an inline Covers: list in an item, or a bullet directly
\* under a Covers: or Depends: line of an item
MalformedIdentifier(lines, k) ==
    \/ Malformed(declaration(lines[k]))
    \/ /\ InItem(lines, k)
       /\ Len(keyword_captures(lines[k], "covers:")) # 0
       /\ \E part \in Range(parse_list(keyword_captures(lines[k], "covers:")[1])) :
              Malformed(item_ref_captures(part))
    \/ /\ k > 1
       /\ InItem(lines, k - 1)
       /\ keyword_is_match(lines[k - 1], "covers:") \/ keyword_is_match(lines[k - 1], "depends:")
       /\ is_bullet(lines[k])
       /\ Malformed(item_ref_captures(lines[k]))

\* C21: a malformed revision in any matched identifier of a file, in a
\* declaration or listed under Covers or Depends, makes import_from_file
\* return an error
C21_MalformedRevisionAborts ==
    (Parsed /\ \E k \in 1..Len(md_file.lines) : MalformedIdentifier(md_file.lines, k))
        => ~md_result.ok

\* The numbers of the declaration lines, in file order
DeclLines(lines) ==
    SelectSeq([k \in 1..Len(lines) |-> k], LAMBDA k : Len(declaration(lines[k])) # 0)

\* The line of the declaration after the n-th of decls, or the line after
\* the last
NextDecl(lines, decls, n) == IF n < Len(decls) THEN decls[n + 1] ELSE Len(lines) + 1

\* The identifier the captures of a declaration line declare
DeclaredId(captures) ==
    NewId(captures.artifact_type, captures.name, parse_u32(captures.revision).value)

\* The captures of the declaration of each line, none for any other line
Declarations(lines) == [k \in 1..Len(lines) |-> declaration(lines[k])]

\* The numbers of the lines with captures, in file order
Declaring(captures) ==
    SelectSeq([k \in 1..Len(captures) |-> k], LAMBDA k : Len(captures[k]) # 0)

WithoutLocation(item) == [item EXCEPT !.location = <<>>]

\* The last item of the lines from..to parsed as a file of their own,
\* without its location
LastParsedAlone(lines, from, to) ==
    LET last(alone) == WithoutLocation(alone[Len(alone)])
    IN  last(parse_markdown(SubSeq(lines, from, to), md_file.path).value)

\* One item per declaration line, decls being their numbers in file order
\* and captures what each line declares, each with the declared identifier
\* and located at the 1-based line of its declaration
OnePerDeclaration(decls, captures) ==
    /\ md_result.ok
    /\ Len(md_result.value) = Len(decls)
    /\ \A n \in 1..Len(decls) :
           /\ md_result.value[n].id = DeclaredId(captures[decls[n]][1])
           /\ md_result.value[n].location = <<Location_new(md_file.path, u32(decls[n]))>>

\* The n-th item is what the lines from..to give on their own
ItemFrom(n, from, to) ==
    WithoutLocation(md_result.value[n]) = LastParsedAlone(md_file.lines, from, to)

\* The statement of C25 as claimed: for every file, one item per
\* declaration, each made of the lines from its declaration up to the next
\* declaration and of no other line
C25_Original ==
    Parsed =>
        LET holds(captures) ==
                LET each(decls) ==
                        /\ OnePerDeclaration(decls, captures)
                        /\ \A n \in 1..Len(decls) :
                               ItemFrom(n, decls[n], NextDecl(md_file.lines, decls, n) - 1)
                IN  each(Declaring(captures))
        IN  holds(Declarations(md_file.lines))

\* C25: parse_markdown returns; when no declaration has a malformed
\* revision it yields one item per declaration line, in file order, each
\* located at its declaration's 1-based line and made of the line before
\* its declaration (which can give the title), its declaration and the
\* lines up to the next declaration, the boundary line starting the next
\* item; and each item's parse ends at or after its declaration line.
\* When a declaration has a malformed revision the import fails.
C25_OneItemPerDeclaration ==
    Parsed =>
        LET holds(captures) ==
                LET each(decls) ==
                        /\ OnePerDeclaration(decls, captures)
                        /\ \A n \in 1..Len(decls) :
                               /\ ItemFrom(n, IF decls[n] > 1 THEN decls[n] - 1 ELSE decls[n],
                                           NextDecl(md_file.lines, decls, n) - 1)
                               /\ parse_specification_item(md_file.lines, decls[n],
                                      md_file.path, captures[decls[n]][1]).line_number
                                      >= decls[n]
                IN  IF \E k \in 1..Len(captures) : Malformed(captures[k]) THEN ~md_result.ok
                    ELSE each(Declaring(captures))
        IN  holds(Declarations(md_file.lines))

\* Two items, the second's declaration ending the first's content and
\* following a heading that is text of the first and title of the second
C25_Witness ==
    /\ Parsed
    /\ md_result.ok
    /\ Len(md_result.value) = 2
    /\ Len(md_file.lines) = 4
    /\ DeclLines(md_file.lines) = <<1, 3>>
    /\ md_result.value[1].description = << <<"#", " ", "Auth">> >>
    /\ md_result.value[2].title = << <<"Auth">> >>
    /\ md_result.value[2].needs = << <<"impl">> >>

\* The identifier of a declaration as it is written in the line
IdentifierText(captures) ==
    captures.artifact_type \o <<"~">> \o captures.name \o <<"~">> \o captures.revision

\* &s[..offset]: the string up to a character offset; a word the offset
\* falls inside is cut, its first characters kept
RECURSIVE SliceTo(_, _)
SliceTo(s, offset) ==
    IF offset = 0 \/ Len(s) = 0 THEN <<>>
    ELSE IF offset >= Len(chars(s[1])) THEN <<s[1]>> \o SliceTo(Tail(s), offset - Len(chars(s[1])))
    ELSE SubSeq(chars(s[1]), 1, offset)

\* The text with the first occurrence of the identifier taken out, what
\* stands before and after it kept
IdentifierRemoved(text, identifier) ==
    IF find(text, identifier) = -1 THEN text
    ELSE SliceTo(text, find(text, identifier))
             \o slice_from(text, find(text, identifier) + len(identifier))

\* The title the resolution rule gives the declaration on line d
ResolvedTitle(lines, d) ==
    IF d > 1 /\ is_heading(lines[d - 1]) THEN <<extract_heading_text(lines[d - 1])>>
    ELSE IF is_heading(lines[d])
    THEN LET identifier == IdentifierText(declaration(lines[d])[1])
             remains == trim(IdentifierRemoved(extract_heading_text(lines[d]), identifier))
         IN  IF Len(remains) # 0 THEN <<remains>> ELSE <<identifier>>
    ELSE <<>>

\* C26: the title of an item is the text of a heading on the line before
\* its declaration; else, for a declaration in a heading, the heading text
\* without the identifier, trimmed, or the identifier when nothing remains;
\* else the item has no title
C26_TitleResolution ==
    (Parsed /\ md_result.ok) =>
        \A n \in 1..Len(md_result.value) :
            md_result.value[n].title = ResolvedTitle(md_file.lines, DeclLines(md_file.lines)[n])

\* The line is a keyword line of some kind
IsKeywordLine(line) ==
    \/ \E keyword \in {"needs:", "covers:", "tags:"} : Len(keyword_captures(line, keyword)) # 0
    \/ \E keyword \in {"covers:", "depends:", "rationale:", "comment:"} :
           keyword_is_match(line, keyword)
    \/ Len(status_captures(line)) # 0

\* A line of ordinary text: not blank, not a keyword line, not a bullet
IsTextLine(line) == Len(trim(line)) # 0 /\ ~IsKeywordLine(line) /\ ~is_bullet(line)

\* The block a keyword line opens: Rationale: and Comment: open theirs, any
\* other keyword line ends the block, the text after it is description
BlockAfter(line) ==
    IF keyword_is_match(line, "rationale:") THEN "rationale"
    ELSE IF keyword_is_match(line, "comment:") THEN "comment"
    ELSE "description"

\* The text lines from line k to line to that belong to the block wanted,
\* block being the block open before line k
RECURSIVE BlockLines(_, _, _, _, _)
BlockLines(lines, k, to, block, wanted) ==
    IF k > to THEN <<>>
    ELSE IF IsKeywordLine(lines[k]) THEN BlockLines(lines, k + 1, to, BlockAfter(lines[k]), wanted)
    ELSE IF IsTextLine(lines[k]) /\ block = wanted
         THEN <<lines[k]>> \o BlockLines(lines, k + 1, to, block, wanted)
         ELSE BlockLines(lines, k + 1, to, block, wanted)

\* The text lines of an optional section text
TextLinesOf(section) ==
    IF Len(section) = 0 THEN <<>> ELSE SelectSeq(split(section[1], "\n"), IsTextLine)

\* C27: a Rationale: or Comment: block ends at the next keyword line of
\* any kind or at the item boundary: the text lines of an item's rationale
\* and comment are those of its Rationale: and Comment: blocks, and its
\* other text lines are in the description
C27_BlockEndsAtKeyword ==
    (Parsed /\ md_result.ok) =>
        \A n \in 1..Len(md_result.value) :
            LET from == DeclLines(md_file.lines)[n] + 1
                to == NextDecl(md_file.lines, DeclLines(md_file.lines), n) - 1
            IN  /\ TextLinesOf(md_result.value[n].rationale)
                       = BlockLines(md_file.lines, from, to, "description", "rationale")
                /\ TextLinesOf(md_result.value[n].comment)
                       = BlockLines(md_file.lines, from, to, "description", "comment")
                /\ TextLinesOf(md_result.value[n].description)
                       = BlockLines(md_file.lines, from, to, "description", "description")

\* The list a line leaves open: a Covers: or Depends: line opens its
\* list, a bullet or a blank line leaves it as it is, any other keyword
\* line and any text line closes it
ListAfter(line, list) ==
    IF Len(keyword_captures(line, "covers:")) = 0 /\ keyword_is_match(line, "covers:")
    THEN "covers"
    ELSE IF keyword_is_match(line, "depends:") THEN "depends"
    ELSE IF IsKeywordLine(line) \/ IsTextLine(line) THEN "none"
    ELSE list

\* The identifiers of the bullets from line k to line to that stand in the
\* list wanted, list being the list open before line k
RECURSIVE ListedIdentifiers(_, _, _, _, _)
ListedIdentifiers(lines, k, to, list, wanted) ==
    IF k > to THEN <<>>
    ELSE IF ~IsKeywordLine(lines[k]) /\ is_bullet(lines[k]) /\ list = wanted
         THEN extract_item_reference(lines[k])
                  \o ListedIdentifiers(lines, k + 1, to, list, wanted)
         ELSE ListedIdentifiers(lines, k + 1, to, ListAfter(lines[k], list), wanted)

\* The identifiers of the inline Covers: lists from line k to line to
RECURSIVE InlineCovers(_, _, _)
InlineCovers(lines, k, to) ==
    IF k > to THEN <<>>
    ELSE IF Len(keyword_captures(lines[k], "needs:")) = 0
            /\ Len(keyword_captures(lines[k], "covers:")) # 0
         THEN parse_covers_list(keyword_captures(lines[k], "covers:")[1])
                  \o InlineCovers(lines, k + 1, to)
         ELSE InlineCovers(lines, k + 1, to)

\* C28: a bullet adds its identifier to covers (to depends) only when it
\* stands in the bulleted list directly after a Covers: (a Depends:) line,
\* one identifier per bullet in list order; a bullet after an intervening
\* text line or another keyword line adds nothing to covers or depends
C28_BulletsOnlyInList ==
    (Parsed /\ md_result.ok) =>
        \A n \in 1..Len(md_result.value) :
            LET from == DeclLines(md_file.lines)[n] + 1
                to == NextDecl(md_file.lines, DeclLines(md_file.lines), n) - 1
            IN  /\ md_result.value[n].covers
                       = InlineCovers(md_file.lines, from, to)
                             \o ListedIdentifiers(md_file.lines, from, to, "none", "covers")
                /\ md_result.value[n].depends
                       = ListedIdentifiers(md_file.lines, from, to, "none", "depends")
====
